---- MODULE Spec2Model ----
(***************************************************************************)
(* The distributed GCP-SGD drivers of GenTen: DistGCP::allReduceTrad and   *)
(* DistGCP::fedOpt, with DistGCP::allReduceKT and the processor grid's     *)
(* per-mode sub-communicators.                                             *)
(*                                                                         *)
(* All ranks of the grid run the same driver and meet in collectives, so   *)
(* the model advances them in lockstep, one action per statement group of  *)
(* the epoch loop.  A factor matrix of a mode is one number per rank       *)
(* (the rows the rank holds); numbers are fixed-point with Unit = 1.0, so  *)
(* that the halving done by allReduceKT(.., true) on a sub-communicator of *)
(* size 2 is exact, as the multiplication by 0.5 is in the program.        *)
(***************************************************************************)
EXTENDS Integers, Sequences, FiniteSets, TLC

\* ------------------------------------------------------------- bounds
MaxEpochs == 2
MaxIters == 2
MaxDp == 2
MaxThreads == 2
MaxSamples == 2
MaxProcs == 6
MaxDim == 3
MaxModes == 3
MaxLength == 8
MaxRanks == 3
MaxElems == 2

\* ----------------------------------------------------------- constants
\* The accept rule's tolerance, 0.001, as the divisor 1000.
TolDiv == 1000

\* 1.0 in fixed point: every synchronisation may halve once.
Unit == 2 ^ (MaxEpochs * MaxIters + 1)

Modes == {1, 2}
\* Grid shapes (processes per mode); the product is nprocs.
Grids == {<<1, 1>>, <<2, 1>>, <<1, 2>>}
\* Fit estimates gcp_value can produce (loss values, smaller is better).
\* A fit estimate is held as <<v>>, the not-a-number value as <<>>.
NaN == <<>>
FestInit == 4 * TolDiv
FestVals == {TolDiv, FestInit, FestInit + 3, FestInit + 6, FestInit + 10}
\* Learning rates the annealer can hand out.
LrVals == {1, 2}
\* The sample batches fusedGradient can draw in one iteration.
Samples == {"a", "b"}

VARIABLES
    cfg,        \* method, fedavg, dp_iters, epochIters, maxEpochs, grid
    pc,         \* position of every rank in compute()
    e, i,       \* epoch and iteration counters
    epoch_lr,   \* stepper's step, set from annealer(e)
    Kfac_,      \* DistGCP::Kfac_ of every rank
    u, u_best, g, meta_u,
    u_iter,     \* the parameters u at the start of the current iteration
    draw,       \* the batch fusedGradient drew in this iteration
    fest, fest_prev, fest_best,
    allreduceCounter,
    sinceSync,  \* local steps taken since the last synchronisation
    annealer,   \* calls of success() and failed()
    stepper, meta_stepper, \* calls of setPassed() and setFailed()
    timeUp,     \* the wall-clock budget was exceeded at an epoch boundary
    ret         \* value returned by compute(), once pc = "done"

\* The state of the distributed drivers.
driverVars == <<cfg, pc, e, i, epoch_lr, Kfac_, u, u_best, g, meta_u, u_iter, draw,
                fest, fest_prev, fest_best, allreduceCounter, sinceSync,
                annealer, stepper, meta_stepper, timeUp, ret>>

\* One pass of the fused sampling/gradient kernel (gcp_sgd_ss_grad).
VARIABLES
    algParams,  \* the AlgParams the kernel and the sampler are run with
    modes,      \* the mode list: G has one matrix per entry
    have_Mprev, \* a previous-window model is given
    M, Mt,      \* factor matrices: mode -> row -> entry (one component)
    batch,      \* the sampled entries of the pass, in league order
    team,       \* the thread that runs each league member
    todo,       \* per thread: the additions it has still to make
    reg,        \* per thread: the entry read by a non-atomic addition
    sa,         \* per thread: its duplicate of G (ScatterDuplicated)
    G,          \* gradient as the scatter-view kernel leaves it
    G_atomic,   \* gradient as the atomic kernel leaves it
    kpc         \* position of the pass

kernelVars == <<algParams, modes, have_Mprev, M, Mt, batch, team, todo, reg, sa,
                G, G_atomic, kpc>>

\* Setting up a solver: the configuration, the tensor, and the sampler
\* constructed from them.
VARIABLES
    input_,     \* DistGCP::input_: the options given to the distributed solver
    spTensor_,  \* nprocs and, per rank, the local nonzeros and zeros
    space,      \* SpaceProperties of the execution space
    X,          \* the tensor a sampler is constructed for: nnz and numel
    sampler,    \* the sample counts and weights of the constructed sampler
    ppc,        \* position of the set-up
    runs        \* two runs of the solver on one configuration and tensor

paramVars == <<input_, spTensor_, space, X, sampler, ppc, runs>>

\* Laying the tensor out over the processes: the processor grid chosen
\* for the tensor's dimensions and the blocking of one mode.
VARIABLES
    gridProcs,    \* minFactorSpaceGrid: the number of processes
    tensor_dims,  \* minFactorSpaceGrid: the tensor's dimensions
    cartGrid,     \* the grid minFactorSpaceGrid returned
    ModeLength,   \* singleDimMediumGrainBlocking: rows of the mode
    ProcsInMode,  \* singleDimMediumGrainBlocking: processes of the mode
    Range,        \* the range singleDimMediumGrainBlocking returned
    lpc           \* position of the lay-out

gridVars == <<gridProcs, tensor_dims, cartGrid, ModeLength, ProcsInMode, Range, lpc>>

\* Reading the tensor on rank 0 and handing a block of its entries to
\* every rank (distributeTensorToVectors).
VARIABLES
    nranks,       \* the number of processes of the communicator
    file_nnz,     \* nnz: the number of entries of the tensor file
    Tvec,         \* per rank: the entries it holds
    msgs,         \* per rank: the message sent to it and not yet received
    isend_i,      \* rank 0: the loop variable of its sends
    nbytes_sent,  \* per rank: the byte count of the send to it
    nbytes_recv,  \* per rank: the byte count of its receive
    dpc           \* per rank: its position

distVars == <<nranks, file_nnz, Tvec, msgs, isend_i, nbytes_sent, nbytes_recv, dpc>>

\* Moving every entry to the rank that owns its block (redistributeTensor),
\* from the vectors Tvec the ranks hold.
VARIABLES
    pmap,                \* the grid of the ProcessorMap
    TDims,               \* the tensor's dimensions
    elems_to_write,      \* per rank and target: the entries to put there
    offset_to_write_at,  \* per rank and target: the displacement of its put
    window,              \* per rank: the cells of its window
    writers,             \* per rank and cell: the origins that wrote it
    put_i,               \* per rank: the loop variable of its puts
    redistributedData,   \* per rank: the vector returned
    wpc                  \* position of the ranks, between the collectives

winVars == <<pmap, TDims, elems_to_write, offset_to_write_at, window, writers, put_i,
             redistributedData, wpc>>

layoutVars == <<gridVars, distVars, winVars>>

\* One run of the asynchronous iterator (GCP_SGD_Iter_Async::run and the
\* kernel it launches).
VARIABLES
    asyncIn,     \* the sampler's counts, the parameters and the build
    team_ii,     \* per team of the league: the loop variable ii
    nprocessed,  \* samples drawn and applied by the kernel so far
    run_result,  \* what run() returned, <<>> before it returns
    apc          \* position of run()

asyncVars == <<asyncIn, team_ii, nprocessed, run_result, apc>>

\* The ranks of the grid running allReduceTrad or fedOpt, each at its own
\* pace, and the collective calls they are blocked in.
VARIABLES
    ccfg,     \* the method, its parameters and the grid
    proc,     \* per rank: its position and its local variables
    blocked   \* per rank: the collective call it is blocked in, or <<>>

collVars == <<ccfg, proc, blocked>>

runVars == <<asyncVars, collVars>>

\* Everything but the state of the distributed drivers.
aux == <<kernelVars, paramVars, layoutVars, runVars>>

vars == <<driverVars, aux>>

\* ------------------------------------------------------ processor grid
nprocs(grid) == grid[1] * grid[2]
Ranks(grid) == 0 .. (nprocs(grid) - 1)

\* MPI_Cart_coords on a row-major Cartesian communicator.
Coord(grid, r, m) == IF m = 1 THEN r \div grid[2] ELSE r % grid[2]

\* MPI_Cart_sub keeping every dimension but m: the ranks that share the
\* coordinate of r in mode m, i.e. that hold the same rows of factor m.
subComm(grid, r, m) == {q \in Ranks(grid) : Coord(grid, q, m) = Coord(grid, r, m)}

subCommSizes(grid, m) == Cardinality(subComm(grid, 0, m))

RECURSIVE SumOver(_, _, _)
SumOver(x, S, m) ==
    IF S = {} THEN 0
    ELSE LET q == CHOOSE q \in S : TRUE
         IN x[q][m] + SumOver(x, S \ {q}, m)

\* MPI_Allreduce(MPI_IN_PLACE, .., MPI_SUM, subComm) for mode m.
MPI_Allreduce(grid, x, r, m) == SumOver(x, subComm(grid, r, m), m)

\* factors()[d].times(1.0 / gridSizes[d])
times(v, n) == v \div n

\* Mutant: the sum over the sub-communicator is always divided by its size.
AllReduceKT_average(grid, x, divide_by_grid_size) ==
    [r \in Ranks(grid) |-> [m \in Modes |->
        times(MPI_Allreduce(grid, x, r, m), subCommSizes(grid, m))]]

\* Mutant: the sum over the sub-communicator is never divided.
AllReduceKT_nodivide(grid, x, divide_by_grid_size) ==
    [r \in Ranks(grid) |-> [m \in Modes |-> MPI_Allreduce(grid, x, r, m)]]

\* Mutant: no collective is performed.
AllReduceKT_skip(grid, x, divide_by_grid_size) == x

\* Mutant: the send buffer is added to the receive buffer once more.
AllReduceKT_twice(grid, x, divide_by_grid_size) ==
    [r \in Ranks(grid) |-> [m \in Modes |-> 2 * x[r][m]]]

AllReduceKT(grid, x, divide_by_grid_size) ==
    IF nprocs(grid) = 1 THEN x
    ELSE LET summed == [r \in Ranks(grid) |-> [m \in Modes |->
                          IF subCommSizes(grid, m) = 1 THEN x[r][m]
                          ELSE MPI_Allreduce(grid, x, r, m)]]
         IN IF divide_by_grid_size
            THEN [r \in Ranks(grid) |-> [m \in Modes |->
                     times(summed[r][m], subCommSizes(grid, m))]]
            ELSE summed

\* The modes for which allReduceKT calls MPI_Allreduce.
CollectiveModes(grid) ==
    IF nprocs(grid) = 1 THEN {}
    ELSE {m \in Modes : subCommSizes(grid, m) # 1}

\* ------------------------------------------------------------ vectors
Filled(grid, v) == [r \in Ranks(grid) |-> [m \in Modes |-> v]]
zero(grid) == Filled(grid, 0)

\* The gradient contribution of batch s on rank r for mode m.
LocalGrad(s, r, m) ==
    IF s = "a" THEN (IF r = 0 THEN Unit ELSE 0)
    ELSE (IF m = 1 THEN Unit ELSE (IF r = 0 THEN 0 ELSE 2 * Unit))

\* sampler.fusedGradient(ut, loss, GFac, ..): adds the batch's
\* contributions to the gradient.
fusedGradient(grid, s, gr) ==
    [r \in Ranks(grid) |-> [m \in Modes |-> gr[r][m] + LocalGrad(s, r, m)]]

\* SGDStep::eval(g, u): u -= step * g.
SGDStep_eval(grid, step, gr, x) ==
    [r \in Ranks(grid) |-> [m \in Modes |-> x[r][m] - step * gr[r][m]]]

Sign(v) == IF v > 0 THEN 1 ELSE IF v < 0 THEN -1 ELSE 0

\* AdamStep::eval(diff, meta_u) with step meta_lr: a step of one meta_lr
\* against the sign of the meta-gradient.
AdamStep_eval(grid, gr, x) ==
    [r \in Ranks(grid) |-> [m \in Modes |-> x[r][m] - Unit * Sign(gr[r][m])]]

\* diff.set(meta_u); diff.plus(u, -1.0)
Diff(grid, mu, x) ==
    [r \in Ranks(grid) |-> [m \in Modes |-> mu[r][m] - x[r][m]]]

\* Mutant: the copy is lost.
set_lost(x, y) == x

\* x.set(y), as in u.set(u_best)
set(x, y) == y

\* The body of one allReduceTrad iteration from parameters x with batch s:
\* g.zero(); fusedGradient; allReduceKT(GFac, false); stepper.eval(g, u).
TradIteration(grid, step, s, x) ==
    SGDStep_eval(grid, step,
                 AllReduceKT(grid, fusedGradient(grid, s, zero(grid)), FALSE), x)

\* -------------------------------------------------------- accept rule
isnan(f) == f = NaN
Val(f) == f[1]

\* Mutant: only a strict improvement is accepted.
Accepts_strict(prev, f, best) ==
    /\ ~isnan(f)
    /\ prev - Val(f) > 0

\* Mutant: every fit that is a number is accepted.
Accepts_always(prev, f, best) == ~isnan(f)

\* fest_diff > -0.001 * fest_best, with fest_diff = fest_prev - fest;
\* a comparison with a NaN operand is false.
Accepts(prev, f, best) ==
    /\ ~isnan(f)
    /\ TolDiv * (prev - Val(f)) > -best

\* Mutant: every accepted fit is taken as the best fit.
IsBest_always(f, best) == TRUE

\* if (fest < fest_best): only set best if really best.
IsBest(f, best) == Val(f) < best

\* Mutant: the last iteration of an epoch does not force a synchronisation.
SyncDue_noTail(it, dp, epochIters) == (it + 1) % dp = 0

\* (i + 1) % dp_iters == 0 || i == (epochIters - 1)
SyncDue(it, dp, epochIters) == (it + 1) % dp = 0 \/ it = epochIters - 1

IsTrad == cfg.method = "trad"
IsFed == cfg.method = "fedopt"

Configs ==
    { c \in [method : {"trad", "fedopt"}, fedavg : BOOLEAN,
             dp_iters : 1 .. MaxDp, epochIters : 0 .. MaxIters,
             maxEpochs : 0 .. MaxEpochs, grid : Grids] :
        c.method = "trad" => (~c.fedavg /\ c.dp_iters = 1) }

NoCalls == [passed |-> 0, failed |-> 0]

\* ------------------------------------------- fused gradient kernels
\* Rows of every factor matrix (X.size(m)).
Rows == 1 .. 2
nd == Cardinality(Modes)
Threads == 1 .. MaxThreads

\* A sampled entry: its subscripts ind, its stratum, and the values y_val
\* and yt_val the kernels compute for it from the loss derivative before
\* they touch G (the same statements in both kernels).
SampleSet ==
    { [ind |-> <<1, 1>>, nonzero |-> TRUE, y_val |-> 1, yt_val |-> 2],
      [ind |-> <<1, 2>>, nonzero |-> TRUE, y_val |-> 3, yt_val |-> 1],
      [ind |-> <<2, 1>>, nonzero |-> FALSE, y_val |-> 2, yt_val |-> 3] }

\* Factor matrices the pass can be given.
FactorSet == { <<<<1, 2>>, <<3, 5>>>>, <<<<2, 1>>, <<1, 4>>>> }

ZeroG(n) == [p \in 1 .. n |-> [k \in Rows |-> 0]]

\* tmp *= &(F[m].entry(ind[m], j)) for every m < upto with m != n.
RECURSIVE ProdExcept(_, _, _, _)
ProdExcept(F, ind, n, upto) ==
    IF upto = 0 THEN 1
    ELSE (IF upto # n THEN F[upto][ind[upto]] ELSE 1)
            * ProdExcept(F, ind, n, upto - 1)

\* row_func of gcp_sgd_ss_grad_sv_kernel: the values added to ga(k, j).
sv_row_func(F, Ft, have, s, nn) ==
    <<s.y_val * ProdExcept(F, s.ind, nn, nd)>>
       \o (IF have THEN <<s.yt_val * ProdExcept(Ft, s.ind, nn, nd)>> ELSE <<>>)

\* One addition: to row k of the matrix at position n of G.
Addition(n, k, v) == [n |-> n, k |-> k, v |-> v]

\* for (n = 0; n < d; ++n) { ga = sa[n].access(); nn = modes[n];
\* k = ind[nn]; row_func(.., k, nn, ga); }, from list position n on.
RECURSIVE sv_sample(_, _, _, _, _, _)
sv_sample(F, Ft, have, md, s, n) ==
    IF n > Len(md) THEN <<>>
    ELSE LET nn == md[n]
             vals == sv_row_func(F, Ft, have, s, nn)
         IN [j \in 1 .. Len(vals) |-> Addition(n, s.ind[nn], vals[j])]
               \o sv_sample(F, Ft, have, md, s, n + 1)

\* The additions of the league members idx .. that thread w runs.
RECURSIVE Additions(_, _, _, _, _, _, _, _)
Additions(F, Ft, have, md, b, tm, w, idx) ==
    IF idx > Len(b) THEN <<>>
    ELSE (IF tm[idx] = w THEN sv_sample(F, Ft, have, md, b[idx], 1) ELSE <<>>)
            \o Additions(F, Ft, have, md, b, tm, w, idx + 1)

\* ga(k, j) += tmp
Add(x, c) == [x EXCEPT ![c.n][c.k] = @ + c.v]

RECURSIVE AddAll(_, _)
AddAll(x, cs) == IF cs = <<>> THEN x ELSE AddAll(Add(x, Head(cs)), Tail(cs))

\* contribute_into of a duplicated scatter view: the duplicates of the
\* threads in S are summed into the target.
RECURSIVE contribute_into(_, _, _)
contribute_into(x, dup, S) ==
    IF S = {} THEN x
    ELSE LET w == CHOOSE w \in S : TRUE
         IN contribute_into([p \in DOMAIN x |-> [k \in Rows |->
                                x[p][k] + dup[w][p][k]]], dup, S \ {w})

\* row_func of gcp_sgd_ss_grad_atomic_kernel: the values it adds with
\* Kokkos::atomic_add; both products are taken over the entries of M, the
\* first over the modes m < upto.
atomic_row_func(F, have, s, nn, upto) ==
    <<s.y_val * ProdExcept(F, s.ind, nn, upto)>>
       \o (IF have THEN <<s.yt_val * ProdExcept(F, s.ind, nn, nd)>> ELSE <<>>)

\* The loop over the mode list in gcp_sgd_ss_grad_atomic_kernel, from list
\* position n on: n < d in the nonzero kernel, n < nd in the zero kernel,
\* where the product runs over m < d; modes[n] read past the end of the
\* list is junk; the addition goes to G[nn].
RECURSIVE atomic_sample(_, _, _, _, _, _)
atomic_sample(F, have, md, s, n, junk) ==
    IF n > (IF s.nonzero THEN Len(md) ELSE nd) THEN <<>>
    ELSE LET nn == IF n <= Len(md) THEN md[n] ELSE junk
             vals == atomic_row_func(F, have, s, nn,
                                     IF s.nonzero THEN nd ELSE Len(md))
         IN [j \in 1 .. Len(vals) |-> Addition(nn, s.ind[nn], vals[j])]
               \o atomic_sample(F, have, md, s, n + 1, junk)

RECURSIVE atomic_batch(_, _, _, _, _, _)
atomic_batch(F, have, md, b, idx, junk) ==
    IF idx > Len(b) THEN <<>>
    ELSE atomic_sample(F, have, md, b[idx], 1, junk)
            \o atomic_batch(F, have, md, b, idx + 1, junk)

\* The pass reads modes or writes G outside their d entries.
OutOfBounds(md, b) ==
    \/ \E n \in 1 .. Len(md) : md[n] > Len(md)
    \/ \E idx \in 1 .. Len(b) : ~b[idx].nonzero /\ Len(md) < nd

\* The additions that fall inside G.
RECURSIVE AddInBounds(_, _)
AddInBounds(x, cs) ==
    IF cs = <<>> THEN x
    ELSE AddInBounds(IF Head(cs).n \in DOMAIN x THEN Add(x, Head(cs)) ELSE x,
                     Tail(cs))

\* What the atomic kernel can leave in G: an access out of bounds is
\* undefined, so the pass may fault (no gradient, <<>>) or go on with the
\* stray additions landing outside G and any mode read as junk.
atomic_kernel(F, have, md, b) ==
    { AddInBounds(ZeroG(Len(md)), atomic_batch(F, have, md, b, 1, junk)) :
         junk \in Modes }
       \cup (IF OutOfBounds(md, b) THEN {<<>>} ELSE {})

\* ------------------------------------------------ sampler construction
Min(a, b) == IF a < b THEN a ELSE b
Max(a, b) == IF a > b THEN a ELSE b

\* A ttb_real weight is held as the fraction <<numerator, denominator>> of
\* the division that produced it; a denominator of 0 is a division by
\* zero (infinity or NaN).
Unspecified == <<-1, 1>>

\* Mutant: the default replaces a given sample count too.
IfZero_always(given, dflt) == dflt

\* if (num_samples == 0) num_samples = default;
IfZero(given, dflt) == IF given = 0 THEN dflt ELSE given

\* Mutant: the default replaces a given weight too.
IfNegative_always(given, population, count) == <<population, count>>

\* if (weight < 0.0) weight = ttb_real(population) / ttb_real(count);
IfNegative(given, population, count) ==
    IF given[1] < 0 THEN <<population, count>> ELSE given

\* The constructor of SemiStratifiedSampler for tensor X_ and AlgParams ap.
SemiStratifiedSampler(X_, ap) ==
    LET nnz == X_.nnz
        tsz == X_.numel
        nz == tsz - nnz
        maxEpochs == ap.maxiters
        ftmp == Max((nnz + 99) \div 100, 100000)
        gtmp == Max((3 * nnz + maxEpochs - 1) \div maxEpochs, 1000)
        nzv == IfZero(ap.num_samples_nonzeros_value, Min(ftmp, nnz))
        zv == IfZero(ap.num_samples_zeros_value, Min(nzv, nz))
        nzg == IfZero(ap.num_samples_nonzeros_grad, Min(gtmp, nnz))
        zg == IfZero(ap.num_samples_zeros_grad, Min(nzg, nz))
    IN [num_samples_nonzeros_value |-> nzv,
        num_samples_zeros_value |-> zv,
        num_samples_nonzeros_grad |-> nzg,
        num_samples_zeros_grad |-> zg,
        weight_nonzeros_value |-> IfNegative(ap.w_f_nz, nnz, nzv),
        weight_zeros_value |-> IfNegative(ap.w_f_z, tsz - nnz, zv),
        weight_nonzeros_grad |-> IfNegative(ap.w_g_nz, nnz, nzg),
        weight_zeros_grad |-> IfNegative(ap.w_g_z, tsz, zg)]

\* ------------------------------------------------- AlgParams::fixup
\* space_prop::cuda_arch() >= 600 || sizeof(ttb_real) == 4
FastAtomics(sp) == sp.cuda_arch >= 600 \/ sp.sizeof_real = 4

\* method == GCP_SGD && sampling_type == SemiStratified && fuse
FusedSemiStratified(ap) ==
    ap.method = "GCP_SGD" /\ ap.sampling_type = "SemiStratified" /\ ap.fuse

\* The first half of fixup: the Default methods are computed.
FixupDefaults(ap, sp) ==
    LET mttkrp_method ==
           IF ap.mttkrp_method # "Default" THEN ap.mttkrp_method
           ELSE IF sp.concurrency = 1 THEN "Single"
           ELSE IF sp.is_cuda /\ FastAtomics(sp) THEN "Atomic"
           ELSE IF sp.is_cuda THEN "Perm"
           ELSE IF ap.method = "GCP_SGD" THEN "Duplicated"
           ELSE "Perm"
        \* if (concurrency() == 1) mttkrp_all_method = Single; is followed
        \* by an if / else-if chain of its own, every branch of which
        \* assigns mttkrp_all_method again.
        mttkrp_all_method ==
           IF ap.mttkrp_all_method # "Default" THEN ap.mttkrp_all_method
           ELSE IF sp.is_cuda /\ FusedSemiStratified(ap) THEN "Atomic"
           ELSE IF sp.is_cuda /\ FastAtomics(sp) THEN "Atomic"
           ELSE IF sp.is_cuda THEN "Iterated"
           ELSE IF ap.method = "GCP_SGD" THEN "Duplicated"
           ELSE "Iterated"
    IN [ap EXCEPT !.mttkrp_method = mttkrp_method,
                  !.mttkrp_all_method = mttkrp_all_method]

\* Mutant: the choices that are invalid on Cuda are left as they are.
FixupCuda_skip(ap, sp) == ap

\* The second half of fixup: invalid choices are changed on Cuda.
FixupCuda(ap, sp) ==
    IF ~sp.is_cuda THEN ap
    ELSE LET mttkrp_method ==
                IF ap.mttkrp_method \in {"Single", "Duplicated"}
                THEN (IF FastAtomics(sp) THEN "Atomic" ELSE "Perm")
                ELSE ap.mttkrp_method
             all1 ==
                IF ap.mttkrp_all_method \in {"Single", "Duplicated"}
                THEN (IF FastAtomics(sp) \/ FusedSemiStratified(ap)
                      THEN "Atomic" ELSE "Iterated")
                ELSE ap.mttkrp_all_method
             all2 ==
                IF FusedSemiStratified(ap) /\ all1 # "Atomic"
                THEN "Atomic" ELSE all1
         IN [ap EXCEPT !.mttkrp_method = mttkrp_method,
                       !.mttkrp_all_method = all2]

\* AlgParams::fixup<ExecSpace>
fixup(ap, sp) == FixupCuda(FixupDefaults(ap, sp), sp)

\* The execution spaces: a host space with one or several threads, and
\* Cuda (many threads) with or without fast atomics for ttb_real.
Spaces ==
    {[is_cuda |-> FALSE, concurrency |-> c, cuda_arch |-> 0, sizeof_real |-> 8] :
        c \in {1, 2}}
      \cup {[is_cuda |-> TRUE, concurrency |-> 2, cuda_arch |-> a, sizeof_real |-> z] :
               a \in {350, 600}, z \in {4, 8}}

\* ------------------------------------------- DistGCP::setAlgParams
\* An option that may be absent is <<>> or <<value>>.
get(opt, dflt) == IF opt = <<>> THEN dflt ELSE opt[1]

\* AlgParams(): the defaults of the fields setAlgParams leaves alone.
AlgParamsDefaults ==
    [method |-> "CP_ALS",
     w_f_nz |-> Unspecified, w_f_z |-> Unspecified,
     w_g_nz |-> Unspecified, w_g_z |-> Unspecified]

\* Mutant: the share of the batch is taken whatever the population.
LocalCount_unclamped(population, size, np) == size \div np

\* std::min(lnz, global_batch_size_nz / np)
LocalCount(population, size, np) == Min(population, size \div np)

RECURSIVE gridAllReduce(_, _)
gridAllReduce(f, S) ==
    IF S = {} THEN 0
    ELSE LET r == CHOOSE r \in S : TRUE
         IN f[r] + gridAllReduce(f, S \ {r})

ProcRanks(t) == 0 .. (t.nprocs - 1)

\* global_batch_size_nz = pmap().gridAllReduce(num_samples_nonzeros_grad)
GlobalBatch(in, t) ==
    gridAllReduce([r \in ProcRanks(t) |->
                     LocalCount(t.lnz[r], in.batch_size_nz, t.nprocs)],
                  ProcRanks(t))

\* setAlgParams on rank r, with epoch_iters as computed.
setAlgParams(in, t, sp, r, epoch_iters) ==
    LET global_batch_size_nz == in.batch_size_nz
        global_batch_size_z == get(in.batch_size_zero, global_batch_size_nz)
        global_value_size_nz == in.value_size_nz
        global_value_size_z == get(in.value_size_zero, global_value_size_nz)
        ap == [method |-> AlgParamsDefaults.method,
               maxiters |-> in.max_epochs,
               num_samples_nonzeros_grad |->
                  LocalCount(t.lnz[r], global_batch_size_nz, t.nprocs),
               num_samples_zeros_grad |->
                  LocalCount(t.lz[r], global_batch_size_z, t.nprocs),
               num_samples_nonzeros_value |->
                  LocalCount(t.lnz[r], global_value_size_nz, t.nprocs),
               num_samples_zeros_value |->
                  LocalCount(t.lz[r], global_value_size_z, t.nprocs),
               w_f_nz |-> AlgParamsDefaults.w_f_nz,
               w_f_z |-> AlgParamsDefaults.w_f_z,
               w_g_nz |-> AlgParamsDefaults.w_g_nz,
               w_g_z |-> AlgParamsDefaults.w_g_z,
               sampling_type |-> "SemiStratified",
               mttkrp_method |-> "Default",
               mttkrp_all_method |->
                  IF sp.concurrency > 1 THEN "Atomic" ELSE "Single",
               fuse |-> TRUE,
               epoch_iters |-> epoch_iters]
    IN fixup(ap, sp)

\* --------------------------------------------------- random numbers
\* Values std::random_device can return.
EntropyVals == {0, 1, 2}
\* Seeds a configuration can give.
SeedVals == {1, 2}

\* The n-th number of the Genten::RandomMT stream seeded with seed.
genrnd(seed, n) == (3 * seed + 5 * n + 1) % 7

\* The batch drawn in iteration n from a Random_XorShift64_Pool seeded
\* with seed.
Rand_draw(seed, n) == (seed + n) % 2

\* Mutant: the generator of init_factors is seeded with the solver's seed.
init_factors_seeded(seed_, entropy) == genrnd(seed_, 0)

\* init_factors: Genten::RandomMT cRMT(std::random_device{}());
\* Kfac_.setMatricesScatter(false, true, cRMT).
init_factors(seed_, entropy) == genrnd(entropy, 0)

\* No kernel pass is under way.
KernelIdle ==
    /\ modes = <<>>
    /\ have_Mprev = FALSE
    /\ M = <<>>
    /\ Mt = <<>>
    /\ batch = <<>>
    /\ team = <<>>
    /\ todo = <<>>
    /\ reg = <<>>
    /\ sa = <<>>
    /\ G = <<>>
    /\ G_atomic = <<>>
    /\ kpc = "idle"

\* No solver is being set up.
ParamsIdle ==
    /\ input_ = <<>>
    /\ spTensor_ = <<>>
    /\ space = <<>>
    /\ X = <<>>
    /\ sampler = <<>>
    /\ ppc = "idle"
    /\ runs = <<>>

\* No grid is being chosen and no mode blocked.
GridIdle ==
    /\ gridProcs = 0
    /\ tensor_dims = <<>>
    /\ cartGrid = <<>>
    /\ ModeLength = 0
    /\ ProcsInMode = 0
    /\ Range = <<>>
    /\ lpc = "idle"

\* No tensor is being read and distributed.
DistIdle ==
    /\ nranks = 0
    /\ file_nnz = 0
    /\ Tvec = <<>>
    /\ msgs = <<>>
    /\ isend_i = 0
    /\ nbytes_sent = <<>>
    /\ nbytes_recv = <<>>
    /\ dpc = <<>>

\* No tensor is being redistributed.
WinIdle ==
    /\ pmap = <<>>
    /\ TDims = <<>>
    /\ elems_to_write = <<>>
    /\ offset_to_write_at = <<>>
    /\ window = <<>>
    /\ writers = <<>>
    /\ put_i = <<>>
    /\ redistributedData = <<>>
    /\ wpc = "idle"

\* No tensor is being laid out.
LayoutIdle == GridIdle /\ DistIdle /\ WinIdle

\* The asynchronous iterator is not running.
AsyncIdle ==
    /\ asyncIn = <<>>
    /\ team_ii = <<>>
    /\ nprocessed = 0
    /\ run_result = <<>>
    /\ apc = "idle"

\* No rank is running a distributed method.
CollIdle ==
    /\ ccfg = <<>>
    /\ proc = <<>>
    /\ blocked = <<>>

\* No iterator and no collective is running.
RunIdle == AsyncIdle /\ CollIdle

\* ---------------------------------------------------------------- Init
\* After the constructor: init_factors has left the replicated rows of
\* Kfac_ equal on the ranks of each sub-communicator.
Init ==
    /\ cfg \in Configs
    /\ pc = "start"
    /\ e = 0
    /\ i = 0
    /\ epoch_lr = 0
    /\ Kfac_ = Filled(cfg.grid, Unit)
    /\ u = zero(cfg.grid)
    /\ u_best = zero(cfg.grid)
    /\ g = zero(cfg.grid)
    /\ meta_u = zero(cfg.grid)
    /\ u_iter = zero(cfg.grid)
    /\ draw = "none"
    /\ fest = <<0>>
    /\ fest_prev = 0
    /\ fest_best = 0
    /\ allreduceCounter = 0
    /\ sinceSync = 0
    /\ annealer = [success |-> 0, failed |-> 0]
    /\ stepper = NoCalls
    /\ meta_stepper = NoCalls
    /\ timeUp = FALSE
    /\ ret = 0
    /\ algParams = [mttkrp_all_method |-> "Default"]
    /\ KernelIdle
    /\ ParamsIdle
    /\ LayoutIdle
    /\ RunIdle

\* The prologue of allReduceTrad and fedOpt, up to the epoch loop.
Begin ==
    /\ pc = "start"
    /\ LET u0 == IF IsFed THEN AllReduceKT(cfg.grid, Kfac_, TRUE) ELSE Kfac_
       IN /\ u' = u0
          /\ u_best' = u0
          /\ meta_u' = u0
    /\ g' = zero(cfg.grid)
    /\ fest' = <<FestInit>>
    /\ fest_best' = FestInit
    /\ fest_prev' = FestInit
    /\ pc' = "epoch"
    /\ UNCHANGED <<aux, cfg, u_iter, e, i, epoch_lr, Kfac_, draw, allreduceCounter,
                   sinceSync, annealer, stepper, meta_stepper, timeUp, ret>>

\* Time passes the configured budget (AlgParams::maxsecs); observed at an
\* epoch boundary.
Tick ==
    /\ pc = "epoch"
    /\ ~timeUp
    /\ timeUp' = TRUE
    /\ UNCHANGED <<aux, cfg, u_iter, pc, e, i, epoch_lr, Kfac_, u, u_best, g, meta_u,
                   draw, fest, fest_prev, fest_best, allreduceCounter,
                   sinceSync, annealer, stepper, meta_stepper, ret>>

\* for (e = 0; e < maxEpochs; ++e): epoch_lr = annealer(e); setStep.
EpochStart ==
    /\ pc = "epoch"
    /\ e < cfg.maxEpochs
    /\ epoch_lr' \in LrVals
    /\ i' = 0
    /\ allreduceCounter' = 0
    /\ pc' = IF cfg.epochIters > 0 THEN "zero" ELSE "fit"
    /\ UNCHANGED <<aux, cfg, u_iter, e, Kfac_, u, u_best, g, meta_u, draw, fest,
                   fest_prev, fest_best, sinceSync, annealer, stepper,
                   meta_stepper, timeUp, ret>>

\* g.zero() (after stepper.update() in allReduceTrad).
Zero ==
    /\ pc = "zero"
    /\ g' = zero(cfg.grid)
    /\ u_iter' = u
    /\ pc' = "grad"
    /\ UNCHANGED <<aux, cfg, e, i, epoch_lr, Kfac_, u, u_best, meta_u, draw,
                   fest, fest_prev, fest_best, allreduceCounter, sinceSync,
                   annealer, stepper, meta_stepper, timeUp, ret>>

Gradient ==
    /\ pc = "grad"
    /\ \E s \in Samples :
          /\ draw' = s
          /\ g' = fusedGradient(cfg.grid, s, g)
    /\ pc' = IF IsTrad THEN "reduce" ELSE "eval"
    /\ UNCHANGED <<aux, cfg, u_iter, e, i, epoch_lr, Kfac_, u, u_best, meta_u, fest,
                   fest_prev, fest_best, allreduceCounter, sinceSync,
                   annealer, stepper, meta_stepper, timeUp, ret>>

\* allReduceKT(GFac, false /* don't average */)
Reduce ==
    /\ pc = "reduce"
    /\ g' = AllReduceKT(cfg.grid, g, FALSE)
    /\ pc' = "eval"
    /\ UNCHANGED <<aux, cfg, u_iter, e, i, epoch_lr, Kfac_, u, u_best, meta_u, draw,
                   fest, fest_prev, fest_best, allreduceCounter, sinceSync,
                   annealer, stepper, meta_stepper, timeUp, ret>>

NextIter(it) == IF it + 1 < cfg.epochIters THEN "zero" ELSE "fit"

\* stepper.eval(g, u); in allReduceTrad it ends the iteration.
TradEval ==
    /\ pc = "eval"
    /\ IsTrad
    /\ u' = SGDStep_eval(cfg.grid, epoch_lr, g, u)
    /\ allreduceCounter' = allreduceCounter + 1
    /\ i' = i + 1
    /\ pc' = NextIter(i)
    /\ UNCHANGED <<aux, cfg, u_iter, e, epoch_lr, Kfac_, u_best, g, meta_u, draw, fest,
                   fest_prev, fest_best, sinceSync, annealer, stepper,
                   meta_stepper, timeUp, ret>>

\* do_epoch_iter's stepper.eval(g, u) in fedOpt, then the test for a
\* synchronisation.
FedEval ==
    /\ pc = "eval"
    /\ IsFed
    /\ u' = SGDStep_eval(cfg.grid, epoch_lr, g, u)
    /\ sinceSync' = sinceSync + 1
    /\ IF SyncDue(i, cfg.dp_iters, cfg.epochIters)
       THEN /\ pc' = "sync"
            /\ i' = i
       ELSE /\ pc' = NextIter(i)
            /\ i' = i + 1
    /\ UNCHANGED <<aux, cfg, u_iter, e, epoch_lr, Kfac_, u_best, g, meta_u, draw, fest,
                   fest_prev, fest_best, allreduceCounter, annealer,
                   stepper, meta_stepper, timeUp, ret>>

\* The synchronisation of fedOpt: averaging, or the meta step.
Sync ==
    /\ pc = "sync"
    /\ IF cfg.fedavg
       THEN /\ u' = AllReduceKT(cfg.grid, u, TRUE)
            /\ meta_u' = meta_u
       ELSE LET diff == AllReduceKT(cfg.grid, Diff(cfg.grid, meta_u, u), TRUE)
                mu == AdamStep_eval(cfg.grid, diff, meta_u)
            IN /\ meta_u' = mu
               /\ u' = mu
    /\ allreduceCounter' = allreduceCounter + 1
    /\ sinceSync' = 0
    /\ i' = i + 1
    /\ pc' = NextIter(i)
    /\ UNCHANGED <<aux, cfg, u_iter, e, epoch_lr, Kfac_, u_best, g, draw, fest,
                   fest_prev, fest_best, annealer, stepper, meta_stepper,
                   timeUp, ret>>

\* fest = pmap().gridAllReduce(gcp_value(X_val, ut, w_val, loss)): the
\* value batch X_val is fixed, so parameters equal to the best snapshot
\* give the fit measured for it; other parameters give any value.
FitEval ==
    /\ pc = "fit"
    /\ fest' \in IF u = u_best THEN {<<fest_best>>}
                ELSE {<<f>> : f \in FestVals} \cup {NaN}
    /\ pc' = "decide"
    /\ UNCHANGED <<aux, cfg, u_iter, e, i, epoch_lr, Kfac_, u, u_best, g, meta_u, draw,
                   fest_prev, fest_best, allreduceCounter, sinceSync,
                   annealer, stepper, meta_stepper, timeUp, ret>>

\* fedOpt: if (std::isnan(fest)) return fest_best;
NaNReturn ==
    /\ pc = "decide"
    /\ IsFed
    /\ isnan(fest)
    /\ ret' = fest_best
    /\ pc' = "done"
    /\ UNCHANGED <<aux, cfg, u_iter, e, i, epoch_lr, Kfac_, u, u_best, g, meta_u, draw,
                   fest, fest_prev, fest_best, allreduceCounter, sinceSync,
                   annealer, stepper, meta_stepper, timeUp>>

Passed(s) == [s EXCEPT !.passed = @ + 1]
Failed(s) == [s EXCEPT !.failed = @ + 1]

\* if (fest_diff > -0.001 * fest_best) { ... }
Accept ==
    /\ pc = "decide"
    /\ ~(IsFed /\ isnan(fest))
    /\ Accepts(fest_prev, fest, fest_best)
    /\ stepper' = Passed(stepper)
    /\ meta_stepper' = IF IsFed THEN Passed(meta_stepper) ELSE meta_stepper
    /\ fest_prev' = Val(fest)
    /\ annealer' = [annealer EXCEPT !.success = @ + 1]
    /\ IF IsBest(fest, fest_best)
       THEN /\ fest_best' = Val(fest)
            /\ u_best' = u
       ELSE UNCHANGED <<fest_best, u_best>>
    /\ e' = e + 1
    /\ pc' = "epoch"
    /\ UNCHANGED <<aux, cfg, u_iter, i, epoch_lr, Kfac_, u, g, meta_u, draw, fest,
                   allreduceCounter, sinceSync, timeUp, ret>>

\* ... else { u.set(u_best); ... }
Reject ==
    /\ pc = "decide"
    /\ ~(IsFed /\ isnan(fest))
    /\ ~Accepts(fest_prev, fest, fest_best)
    /\ u' = set(u, u_best)
    /\ fest' = IF IsTrad THEN <<fest_prev>> ELSE <<fest_best>>
    /\ annealer' = [annealer EXCEPT !.failed = @ + 1]
    /\ stepper' = Failed(stepper)
    /\ meta_stepper' = IF IsFed THEN Failed(meta_stepper) ELSE meta_stepper
    /\ e' = e + 1
    /\ pc' = "epoch"
    /\ UNCHANGED <<aux, cfg, u_iter, i, epoch_lr, Kfac_, u_best, g, meta_u, draw,
                   fest_prev, fest_best, allreduceCounter, sinceSync,
                   timeUp, ret>>

\* Leaving the loop after maxEpochs epochs: allReduceTrad copies the best
\* snapshot into Kfac_; both return fest_prev.
LoopExit ==
    /\ pc = "epoch"
    /\ e >= cfg.maxEpochs
    /\ IF IsTrad
       THEN /\ u' = u_best
            /\ Kfac_' = u_best
       ELSE UNCHANGED <<u, Kfac_>>
    /\ ret' = fest_prev
    /\ pc' = "done"
    /\ UNCHANGED <<aux, cfg, u_iter, e, i, epoch_lr, u_best, g, meta_u, draw, fest,
                   fest_prev, fest_best, allreduceCounter, sinceSync,
                   annealer, stepper, meta_stepper, timeUp>>

Next ==
    \/ Begin
    \/ Tick
    \/ EpochStart
    \/ Zero
    \/ Gradient
    \/ Reduce
    \/ TradEval
    \/ FedEval
    \/ Sync
    \/ FitEval
    \/ NaNReturn
    \/ Accept
    \/ Reject
    \/ LoopExit

Spec == Init /\ [][Next]_vars

\* --------------------------------------- one gradient accumulation pass
\* No driver is running.
DriverIdle ==
    /\ cfg = [method |-> "none", fedavg |-> FALSE, dp_iters |-> 1,
              epochIters |-> 0, maxEpochs |-> 0, grid |-> <<1, 1>>]
    /\ pc = "idle"
    /\ e = 0
    /\ i = 0
    /\ epoch_lr = 0
    /\ Kfac_ = zero(<<1, 1>>)
    /\ u = zero(<<1, 1>>)
    /\ u_best = zero(<<1, 1>>)
    /\ g = zero(<<1, 1>>)
    /\ meta_u = zero(<<1, 1>>)
    /\ u_iter = zero(<<1, 1>>)
    /\ draw = "none"
    /\ fest = <<0>>
    /\ fest_prev = 0
    /\ fest_best = 0
    /\ allreduceCounter = 0
    /\ sinceSync = 0
    /\ annealer = [success |-> 0, failed |-> 0]
    /\ stepper = NoCalls
    /\ meta_stepper = NoCalls
    /\ timeUp = FALSE
    /\ ret = 0

\* GCP_SS_Grad_Str::run on a host execution space: the scatter-view
\* kernel with the scatter view the method selects, over a zeroed G; the
\* league members are spread over the threads in any way.
InitAccum ==
    /\ DriverIdle
    /\ ParamsIdle
    /\ LayoutIdle
    /\ RunIdle
    /\ algParams \in [mttkrp_all_method : {"Single", "Atomic", "Duplicated"}]
    /\ modes = <<1, 2>>
    /\ have_Mprev \in BOOLEAN
    /\ M \in FactorSet
    /\ Mt \in FactorSet
    /\ batch \in UNION {[1 .. n -> SampleSet] : n \in 1 .. MaxSamples}
    /\ team \in [1 .. Len(batch) -> Threads]
    /\ todo = [w \in Threads |->
                 Additions(M, Mt, have_Mprev, modes, batch, team, w, 1)]
    /\ reg = [w \in Threads |-> <<>>]
    /\ sa = [w \in Threads |-> ZeroG(Len(modes))]
    /\ G = ZeroG(Len(modes))
    /\ G_atomic = <<>>
    /\ kpc = "run"

\* ScatterNonDuplicated, ScatterAtomic: ga(k, j) += tmp is one atomic add.
AccumAtomic(w) ==
    /\ kpc = "run"
    /\ algParams.mttkrp_all_method = "Atomic"
    /\ todo[w] # <<>>
    /\ G' = Add(G, Head(todo[w]))
    /\ todo' = [todo EXCEPT ![w] = Tail(@)]
    /\ UNCHANGED <<driverVars, layoutVars, runVars, paramVars, algParams, modes, have_Mprev, M, Mt, batch, team,
                   reg, sa, G_atomic, kpc>>

\* ScatterDuplicated, ScatterNonAtomic: the thread adds to its duplicate.
AccumDuplicated(w) ==
    /\ kpc = "run"
    /\ algParams.mttkrp_all_method = "Duplicated"
    /\ todo[w] # <<>>
    /\ sa' = [sa EXCEPT ![w] = Add(@, Head(todo[w]))]
    /\ todo' = [todo EXCEPT ![w] = Tail(@)]
    /\ UNCHANGED <<driverVars, layoutVars, runVars, paramVars, algParams, modes, have_Mprev, M, Mt, batch, team,
                   reg, G, G_atomic, kpc>>

\* ScatterNonDuplicated, ScatterNonAtomic: ga(k, j) += tmp reads the
\* entry of G ...
AccumLoad(w) ==
    /\ kpc = "run"
    /\ algParams.mttkrp_all_method = "Single"
    /\ todo[w] # <<>>
    /\ reg[w] = <<>>
    /\ reg' = [reg EXCEPT ![w] = <<G[Head(todo[w]).n][Head(todo[w]).k]>>]
    /\ UNCHANGED <<driverVars, layoutVars, runVars, paramVars, algParams, modes, have_Mprev, M, Mt, batch, team,
                   todo, sa, G, G_atomic, kpc>>

\* ... and writes the sum back.
AccumStore(w) ==
    /\ kpc = "run"
    /\ algParams.mttkrp_all_method = "Single"
    /\ reg[w] # <<>>
    /\ LET c == Head(todo[w])
       IN G' = [G EXCEPT ![c.n][c.k] = reg[w][1] + c.v]
    /\ todo' = [todo EXCEPT ![w] = Tail(@)]
    /\ reg' = [reg EXCEPT ![w] = <<>>]
    /\ UNCHANGED <<driverVars, layoutVars, runVars, paramVars, algParams, modes, have_Mprev, M, Mt, batch, team,
                   sa, G_atomic, kpc>>

\* for (n = 0; n < d; ++n) sa[n].contribute_into(G[n].view()), after the
\* parallel loops have ended.
ContributeInto ==
    /\ kpc = "run"
    /\ \A w \in Threads : todo[w] = <<>>
    /\ G' = IF algParams.mttkrp_all_method = "Duplicated"
            THEN contribute_into(G, sa, Threads)
            ELSE G
    /\ kpc' = "done"
    /\ UNCHANGED <<driverVars, layoutVars, runVars, paramVars, algParams, modes, have_Mprev, M, Mt, batch, team,
                   todo, reg, sa, G_atomic>>

NextAccum ==
    \/ \E w \in Threads : AccumAtomic(w)
    \/ \E w \in Threads : AccumDuplicated(w)
    \/ \E w \in Threads : AccumLoad(w)
    \/ \E w \in Threads : AccumStore(w)
    \/ ContributeInto

SpecAccum == InitAccum /\ [][NextAccum]_vars


\* ------------------------------- the two streaming kernels, side by side
\* The mode lists a pass can be given: all modes, or some of them.
ModeLists == {<<1, 2>>, <<1>>, <<2>>}

\* Both kernels are given the same samples, M, Mt, Mprev and mode list,
\* and a zeroed G each.
InitKernels ==
    /\ DriverIdle
    /\ ParamsIdle
    /\ LayoutIdle
    /\ RunIdle
    /\ algParams = [mttkrp_all_method |-> "Atomic"]
    /\ modes \in ModeLists
    /\ have_Mprev \in BOOLEAN
    /\ M \in FactorSet
    /\ Mt \in FactorSet
    /\ batch \in UNION {[1 .. n -> SampleSet] : n \in 1 .. MaxSamples}
    /\ team = [idx \in 1 .. Len(batch) |-> 1]
    /\ todo = <<>>
    /\ reg = <<>>
    /\ sa = <<>>
    /\ G = ZeroG(Len(modes))
    /\ G_atomic = ZeroG(Len(modes))
    /\ kpc = "run"

\* gcp_sgd_ss_grad_sv_kernel
RunSv ==
    /\ kpc = "run"
    /\ G' = AddAll(G, Additions(M, Mt, have_Mprev, modes, batch, team, 1, 1))
    /\ kpc' = "sv"
    /\ UNCHANGED <<driverVars, layoutVars, runVars, paramVars, algParams, modes, have_Mprev, M, Mt, batch, team,
                   todo, reg, sa, G_atomic>>

\* gcp_sgd_ss_grad_atomic_kernel
RunAtomic ==
    /\ kpc = "sv"
    /\ G_atomic' \in atomic_kernel(M, have_Mprev, modes, batch)
    /\ kpc' = "done"
    /\ UNCHANGED <<driverVars, layoutVars, runVars, paramVars, algParams, modes, have_Mprev, M, Mt, batch, team,
                   todo, reg, sa, G>>

NextKernels ==
    \/ RunSv
    \/ RunAtomic

SpecKernels == InitKernels /\ [][NextKernels]_vars

\* ------------------------------------- a sampler for a given AlgParams
\* Sample counts and weights an AlgParams can carry (0 and a negative
\* weight ask for the default).
CountVals == {0, 5000, 300000}
WeightVals == {Unspecified, <<0, 1>>, <<3, 2>>}
\* Tensors: nonzeros, and the zeros that make up the rest of numel.
NnzVals == {0, 2000, 20000000}
ZerosVals == {0, 1000000}
\* maxiters is at least 1 (the constructor divides by it).
MaxitersVals == {1, 1000}

InitSampler ==
    /\ DriverIdle
    /\ KernelIdle
    /\ LayoutIdle
    /\ RunIdle
    /\ input_ = <<>>
    /\ spTensor_ = <<>>
    /\ space = <<>>
    /\ algParams \in [maxiters : MaxitersVals,
                      num_samples_nonzeros_value : CountVals,
                      num_samples_zeros_value : CountVals,
                      num_samples_nonzeros_grad : CountVals,
                      num_samples_zeros_grad : CountVals,
                      w_f_nz : WeightVals, w_f_z : WeightVals,
                      w_g_nz : WeightVals, w_g_z : WeightVals]
    /\ X \in {[nnz |-> n, numel |-> n + z] : n \in NnzVals, z \in ZerosVals}
    /\ sampler = <<>>
    /\ runs = <<>>
    /\ ppc = "given"

SamplerCtor ==
    /\ ppc = "given"
    /\ sampler' = SemiStratifiedSampler(X, algParams)
    /\ ppc' = "constructed"
    /\ UNCHANGED <<driverVars, layoutVars, runVars, kernelVars, input_, spTensor_, space, X, runs>>

NextSampler == SamplerCtor

SpecSampler == InitSampler /\ [][NextSampler]_vars

\* --------------------------------------------- fixup of a user's choices
\* The user's choices, as parsed into AlgParams; input_ keeps them.
InitFixup ==
    /\ DriverIdle
    /\ KernelIdle
    /\ LayoutIdle
    /\ RunIdle
    /\ algParams \in [method : {"CP_ALS", "GCP_SGD"},
                      mttkrp_method : {"Default", "Single", "Atomic",
                                       "Duplicated", "Perm"},
                      mttkrp_all_method : {"Default", "Single", "Atomic",
                                           "Duplicated", "Iterated"},
                      sampling_type : {"Uniform", "SemiStratified"},
                      fuse : BOOLEAN]
    /\ input_ = algParams
    /\ spTensor_ = <<>>
    /\ space \in Spaces
    /\ X = <<>>
    /\ sampler = <<>>
    /\ runs = <<>>
    /\ ppc = "given"

Fixup ==
    /\ ppc = "given"
    /\ algParams' = fixup(algParams, space)
    /\ ppc' = "fixed"
    /\ UNCHANGED <<driverVars, layoutVars, runVars, modes, have_Mprev, M, Mt, batch, team, todo, reg,
                   sa, G, G_atomic, kpc, input_, spTensor_, space, X, sampler,
                   runs>>

NextFixup == Fixup

SpecFixup == InitFixup /\ [][NextFixup]_vars

\* ------------------------------------ setting up the distributed solver
BatchVals == {0, 1, 128, 4000000}
ValueVals == {0, 100000, 60000000}
LnzVals == {0, 50, 2000000}
LzVals == {0, 1000}
NprocsVals == {1, 2}

gnz(t) == gridAllReduce(t.lnz, ProcRanks(t))

\* The options of the run and the distributed tensor, which has at least
\* one nonzero; max_epochs is at least 1.
InitDist ==
    /\ DriverIdle
    /\ KernelIdle
    /\ LayoutIdle
    /\ RunIdle
    /\ input_ \in [batch_size_nz : BatchVals,
                   batch_size_zero : {<<>>, <<4000000>>},
                   value_size_nz : ValueVals,
                   value_size_zero : {<<>>},
                   epoch_size : {<<>>, <<10>>},
                   max_epochs : {1000}]
    /\ spTensor_ \in UNION {[nprocs : {np}, lnz : [0 .. (np - 1) -> LnzVals],
                              lz : [0 .. (np - 1) -> LzVals]] : np \in NprocsVals}
    /\ gnz(spTensor_) >= 1
    /\ space \in Spaces
    /\ algParams = <<>>
    /\ X = <<>>
    /\ sampler = <<>>
    /\ runs = <<>>
    /\ ppc = "input"

\* setAlgParams on every rank.  epoch_iters = gnz / global_batch_size_nz
\* with a zero divisor is undefined: where the division does not trap it
\* leaves some value, here 0.
SetAlgParams ==
    /\ ppc = "input"
    /\ LET gb == GlobalBatch(input_, spTensor_)
           epoch_iters == IF input_.epoch_size # <<>> THEN input_.epoch_size[1]
                          ELSE IF gb = 0 THEN 0
                          ELSE gnz(spTensor_) \div gb
       IN algParams' = [r \in ProcRanks(spTensor_) |->
                          setAlgParams(input_, spTensor_, space, r, epoch_iters)]
    /\ ppc' = "params"
    /\ UNCHANGED <<driverVars, layoutVars, runVars, modes, have_Mprev, M, Mt, batch, team, todo, reg,
                   sa, G, G_atomic, kpc, input_, spTensor_, space, X, sampler,
                   runs>>

\* The integer division by zero traps.
DivideByZero ==
    /\ ppc = "input"
    /\ input_.epoch_size = <<>>
    /\ GlobalBatch(input_, spTensor_) = 0
    /\ ppc' = "fault"
    /\ UNCHANGED <<driverVars, layoutVars, runVars, kernelVars, input_, spTensor_, space, X, sampler,
                   runs>>

\* SemiStratifiedSampler(spTensor_.LocalSpTensor(), algParams) on every
\* rank.
ConstructSamplers ==
    /\ ppc = "params"
    /\ X' = [r \in ProcRanks(spTensor_) |->
               [nnz |-> spTensor_.lnz[r],
                numel |-> spTensor_.lnz[r] + spTensor_.lz[r]]]
    /\ sampler' = [r \in ProcRanks(spTensor_) |->
                     SemiStratifiedSampler(X'[r], algParams[r])]
    /\ ppc' = "constructed"
    /\ UNCHANGED <<driverVars, layoutVars, runVars, kernelVars, input_, spTensor_, space, runs>>

NextDist ==
    \/ SetAlgParams
    \/ DivideByZero
    \/ ConstructSamplers

SpecDist == InitDist /\ [][NextDist]_vars

\* ------------------------------------ two runs on one configuration
RunIds == {1, 2}

InitRuns ==
    /\ DriverIdle
    /\ KernelIdle
    /\ LayoutIdle
    /\ RunIdle
    /\ algParams = <<>>
    /\ input_ \in [seed : {<<>>} \cup {<<sd>> : sd \in SeedVals}]
    /\ spTensor_ = <<>>
    /\ space = <<>>
    /\ X = <<>>
    /\ sampler = <<>>
    /\ ppc = "runs"
    /\ runs = [k \in RunIds |-> [pos |-> "new"]]

\* The constructor of DistGCP: seed_ is the configured seed, or a value of
\* std::random_device when none is given; then init_factors.
RunConstruct(k) ==
    /\ ppc = "runs"
    /\ runs[k].pos = "new"
    /\ \E dflt \in EntropyVals : \E entropy \in EntropyVals :
          LET seed_ == get(input_.seed, dflt)
              K == init_factors(seed_, entropy)
          IN runs' = [runs EXCEPT ![k] =
                         [pos |-> "built", seed_ |-> seed_, u |-> K, n |-> 0,
                          trajectory |-> <<K>>]]
    /\ UNCHANGED <<driverVars, layoutVars, runVars, kernelVars, input_, spTensor_, space, X, sampler,
                   ppc>>

\* One iteration of the solver: a batch is drawn from rand_pool(seed_) and
\* the factors take the step of its gradient.
RunIterate(k) ==
    /\ ppc = "runs"
    /\ runs[k].pos = "built"
    /\ runs[k].n < MaxIters
    /\ LET r == runs[k]
           next_u == r.u - (1 + Rand_draw(r.seed_, r.n))
       IN runs' = [runs EXCEPT ![k] =
                      [r EXCEPT !.u = next_u, !.n = @ + 1,
                                !.trajectory = Append(@, next_u)]]
    /\ UNCHANGED <<driverVars, layoutVars, runVars, kernelVars, input_, spTensor_, space, X, sampler,
                   ppc>>

NextRuns ==
    \/ \E k \in RunIds : RunConstruct(k)
    \/ \E k \in RunIds : RunIterate(k)

SpecRuns == InitRuns /\ [][NextRuns]_vars

\* ------------------------------------------------- the processor grid
\* std::sqrt(input) truncated to int.
isqrt(input) == CHOOSE s \in 0 .. input : s * s <= input /\ (s + 1) * (s + 1) > input

\* divisors(input): input itself, every d <= sroot that divides input,
\* and input / d for every such d other than sroot.  The vector is
\* sorted and may hold a value twice; the search below takes the first
\* of equal storages, so the set in ascending order gives the same grid.
divisors(input) ==
    LET sroot == isqrt(input)
        small == {d \in 1 .. sroot : input % d = 0}
    IN {input} \cup small \cup {input \div d : d \in small \ {sroot}}

RECURSIVE accumulate(_)
\* std::accumulate(.., 1ll, std::multiplies<>{}).
accumulate(grid) ==
    IF grid = <<>> THEN 1 ELSE Head(grid) * accumulate(Tail(grid))

RECURSIVE SumSeq(_)
SumSeq(s) == IF s = <<>> THEN 0 ELSE Head(s) + SumSeq(Tail(s))

\* Storage of rank-1 factors on the grid: every factor matrix is held
\* once by each process outside its fiber.
nelementsForRank1Factors(grid, dims) ==
    LET np == accumulate(grid)
    IN SumSeq([k \in 1 .. Len(grid) |-> (np \div grid[k]) * dims[k]])

RECURSIVE recurseMinSpaceGrid(_, _, _, _)
\* The grid after the call: the entries from the current index on are
\* those of the first divisor, in ascending order, whose completed grid
\* has the least storage.
recurseMinSpaceGrid(np, grid, dims, dims_remaining) ==
    IF dims_remaining = 1 THEN [grid EXCEPT ![Len(grid)] = np]
    ELSE LET current_index == Len(grid) - dims_remaining + 1
             test(d) == recurseMinSpaceGrid(np \div d,
                                            [grid EXCEPT ![current_index] = d],
                                            dims, dims_remaining - 1)
             test_storage(d) == nelementsForRank1Factors(test(d), dims)
             ds == divisors(np)
             first == CHOOSE d \in ds :
                         \A d2 \in ds :
                            \/ test_storage(d) < test_storage(d2)
                            \/ test_storage(d) = test_storage(d2) /\ d <= d2
         IN test(first)

minFactorSpaceGrid(np, dims) ==
    recurseMinSpaceGrid(np, [k \in 1 .. Len(dims) |-> 0], dims, Len(dims))

\* The dimension lists a tensor can have.
DimLists == UNION {[1 .. n -> 1 .. MaxDim] : n \in 1 .. MaxModes}

InitGrid ==
    /\ DriverIdle
    /\ KernelIdle
    /\ algParams = <<>>
    /\ ParamsIdle
    /\ RunIdle
    /\ gridProcs \in 1 .. MaxProcs
    /\ tensor_dims \in DimLists
    /\ cartGrid = <<>>
    /\ ModeLength = 0
    /\ ProcsInMode = 0
    /\ Range = <<>>
    /\ lpc = "grid"
    /\ DistIdle
    /\ WinIdle

\* CartGrid with either strategy: both call minFactorSpaceGrid.
MinFactorSpaceGrid ==
    /\ lpc = "grid"
    /\ cartGrid' = minFactorSpaceGrid(gridProcs, tensor_dims)
    /\ lpc' = "gridded"
    /\ UNCHANGED <<driverVars, kernelVars, paramVars, runVars, distVars, winVars, gridProcs, tensor_dims,
                   ModeLength, ProcsInMode, Range>>

NextGrid == MinFactorSpaceGrid

SpecGrid == InitGrid /\ [][NextGrid]_vars

\* ------------------------------------------------ blocking of one mode
RECURSIVE blockingLoop(_, _, _, _)
\* The while loop of singleDimMediumGrainBlocking: blocks one longer
\* while fibers of the remainder are left.
blockingLoop(range, length, FibersPerBlock, Remainder) ==
    LET back == range[Len(range)]
    IN IF back < length
       THEN IF Remainder > 0
            THEN blockingLoop(Append(range, back + FibersPerBlock + 1), length,
                              FibersPerBlock, Remainder - 1)
            ELSE blockingLoop(Append(range, back + FibersPerBlock), length,
                              FibersPerBlock, Remainder)
       ELSE range

singleDimMediumGrainBlocking(length, procs) ==
    LET FibersPerBlock == length \div procs
        Remainder == length % procs
    IN blockingLoop(IF FibersPerBlock = 0 THEN <<0, length>> ELSE <<0>>,
                    length, FibersPerBlock, Remainder)

\* The two assertions before the return.
SanityCheck(range, length, procs) ==
    /\ Len(range) = procs + 1
    /\ range[Len(range)] = length

InitBlocking ==
    /\ DriverIdle
    /\ KernelIdle
    /\ algParams = <<>>
    /\ ParamsIdle
    /\ RunIdle
    /\ gridProcs = 0
    /\ tensor_dims = <<>>
    /\ cartGrid = <<>>
    /\ ModeLength \in 0 .. MaxLength
    /\ ProcsInMode \in 1 .. MaxProcs
    /\ Range = <<>>
    /\ lpc = "blocking"
    /\ DistIdle
    /\ WinIdle

\* One call.  A failing assertion ends a build that keeps assertions and
\* is skipped by a build with NDEBUG, which returns the range.
Blocking ==
    /\ lpc = "blocking"
    /\ LET range == singleDimMediumGrainBlocking(ModeLength, ProcsInMode)
       IN \/ /\ Range' = range
             /\ lpc' = "blocked"
          \/ /\ ~SanityCheck(range, ModeLength, ProcsInMode)
             /\ Range' = <<>>
             /\ lpc' = "aborted"
    /\ UNCHANGED <<driverVars, kernelVars, paramVars, runVars, distVars, winVars, gridProcs, tensor_dims,
                   cartGrid, ModeLength, ProcsInMode>>

NextBlocking == Blocking

SpecBlocking == InitBlocking /\ [][NextBlocking]_vars

\* ------------------------------------ distributing the tensor's entries
\* sizeof(TDatatype): twelve subscripts and a value.
dt_size == 56

DistRanks == 0 .. nranks - 1

\* who_gets_what, and its entry at the index k of the program (from 0).
who_gets_what == singleDimMediumGrainBlocking(file_nnz, nranks)
wgw(k) == who_gets_what[k + 1]

\* The n elements of v from the index first of the program (from 0) on.
SubVec(v, first, n) == [k \in 1 .. n |-> v[first + k]]

InitDistribute ==
    /\ DriverIdle
    /\ KernelIdle
    /\ algParams = <<>>
    /\ ParamsIdle
    /\ RunIdle
    /\ GridIdle
    /\ WinIdle
    /\ nranks \in 1 .. MaxRanks
    /\ file_nnz \in 0 .. MaxLength
    /\ Tvec = [r \in DistRanks |-> <<>>]
    /\ msgs = [r \in DistRanks |-> <<>>]
    /\ isend_i = 1
    /\ nbytes_sent = [r \in DistRanks |-> 0]
    /\ nbytes_recv = [r \in DistRanks |-> 0]
    /\ dpc = [r \in DistRanks |-> "blocking"]

\* Rank r computes who_gets_what.  Where the blocking fails its sanity
\* check a build with assertions aborts; a build without them goes on
\* and reads who_gets_what at the indices 0 .. nprocs - 1 (rank 0) or
\* rank - 1, rank (the others), past its end if it is too short.
WhoGetsWhat(r) ==
    /\ dpc[r] = "blocking"
    /\ \/ /\ Len(who_gets_what) >= IF r = 0 THEN nranks ELSE r + 1
          /\ dpc' = [dpc EXCEPT ![r] = IF r = 0 THEN "import" ELSE "recv"]
       \/ /\ ~SanityCheck(who_gets_what, file_nnz, nranks)
          /\ dpc' = [dpc EXCEPT ![r] = "fault"]
    /\ UNCHANGED <<driverVars, kernelVars, paramVars, runVars, gridVars, winVars, nranks, file_nnz,
                   Tvec, msgs, isend_i, nbytes_sent, nbytes_recv>>

\* Rank 0 reads the file: the entries are numbered 1 .. nnz in file order.
Import ==
    /\ dpc[0] = "import"
    /\ Tvec' = [Tvec EXCEPT ![0] = [k \in 1 .. file_nnz |-> k]]
    /\ dpc' = [dpc EXCEPT ![0] = "send"]
    /\ UNCHANGED <<driverVars, kernelVars, paramVars, runVars, gridVars, winVars, nranks, file_nnz,
                   msgs, isend_i, nbytes_sent, nbytes_recv>>

\* One round of rank 0's loop: MPI_Isend to rank i.
Isend ==
    /\ dpc[0] = "send"
    /\ isend_i < nranks
    /\ LET nelements == wgw(isend_i) - wgw(isend_i - 1)
           nbytes == nelements * dt_size
           index_of_first_element == wgw(isend_i - 1)
       IN /\ msgs' = [msgs EXCEPT ![isend_i] =
                         <<[data |-> SubVec(Tvec[0], index_of_first_element,
                                            nbytes \div dt_size),
                            nbytes |-> nbytes]>>]
          /\ nbytes_sent' = [nbytes_sent EXCEPT ![isend_i] = nbytes]
    /\ isend_i' = isend_i + 1
    /\ UNCHANGED <<driverVars, kernelVars, paramVars, runVars, gridVars, winVars, nranks, file_nnz,
                   Tvec, nbytes_recv, dpc>>

\* After the loop: MPI_Waitall (a standard-mode send completes once the
\* message is buffered or received) and the erase of all but the first
\* who_gets_what[1] entries.
WaitallErase ==
    /\ dpc[0] = "send"
    /\ isend_i >= nranks
    /\ Tvec' = [Tvec EXCEPT ![0] = SubVec(Tvec[0], 0, wgw(1))]
    /\ dpc' = [dpc EXCEPT ![0] = "done"]
    /\ UNCHANGED <<driverVars, kernelVars, paramVars, runVars, gridVars, winVars, nranks, file_nnz,
                   msgs, isend_i, nbytes_sent, nbytes_recv>>

\* Rank r > 0: MPI_Recv of the message of rank 0 into its resized Tvec.
Recv(r) ==
    /\ r # 0
    /\ dpc[r] = "recv"
    /\ msgs[r] # <<>>
    /\ LET nelements == wgw(r) - wgw(r - 1)
           nbytes == nelements * dt_size
       IN /\ msgs[r][1].nbytes <= nbytes
          /\ Tvec' = [Tvec EXCEPT ![r] = msgs[r][1].data]
          /\ nbytes_recv' = [nbytes_recv EXCEPT ![r] = nbytes]
    /\ msgs' = [msgs EXCEPT ![r] = <<>>]
    /\ dpc' = [dpc EXCEPT ![r] = "done"]
    /\ UNCHANGED <<driverVars, kernelVars, paramVars, runVars, gridVars, winVars, nranks, file_nnz,
                   isend_i, nbytes_sent>>

NextDistribute ==
    \/ \E r \in DistRanks : WhoGetsWhat(r)
    \/ Import
    \/ Isend
    \/ WaitallErase
    \/ \E r \in DistRanks : Recv(r)

SpecDistribute == InitDistribute /\ [][NextDistribute]_vars

\* -------------------------------------------- redistributing the entries
\* generateMediumGrainBlocking: the blocking of every mode over the grid.
generateMediumGrainBlocking(ModeLengths, ProcGridSizes) ==
    [m \in 1 .. Len(ModeLengths) |->
        singleDimMediumGrainBlocking(ModeLengths[m], ProcGridSizes[m])]

RECURSIVE blockGuess(_, _, _)
\* The while loop of blockInThatDim; range[block_guess + 1] of the
\* program is the entry block_guess + 2 here.
blockGuess(element, range, block_guess) ==
    IF element >= range[block_guess + 2]
    THEN blockGuess(element, range, block_guess + 1)
    ELSE block_guess

blockInThatDim(element, range) == blockGuess(element, range, 0)

\* MPI_Cart_rank on a row-major Cartesian communicator.
MPI_Cart_rank(grid, GridPos) == GridPos[1] * grid[2] + GridPos[2]

rankInGridThatOwns(COO, grid, ElementRanges) ==
    MPI_Cart_rank(grid, [m \in 1 .. Len(ElementRanges) |->
                            blockInThatDim(COO[m], ElementRanges[m])])

\* The entries of Tvec that rank i owns, in the order of Tvec.
ElemsToWrite(vec, grid, ElementRanges, target) ==
    SelectSeq(vec, LAMBDA elem : rankInGridThatOwns(elem.coo, grid, ElementRanges) = target)

RECURSIVE SumBelow(_, _, _)
\* The sum of amount[q][target] over the ranks q below r.
SumBelow(amount, r, target) ==
    IF r = 0 THEN 0
    ELSE amount[r - 1][target] + SumBelow(amount, r - 1, target)

\* MPI_Scan: the sum over the ranks up to and including r.
MPI_Scan(amount, r, target) == SumBelow(amount, r + 1, target)

\* MPI_Exscan, entry target of the receive buffer of rank r: the sum over
\* the ranks below r.  Rank 0's receive buffer is not written; it keeps
\* the zeros small_vector<int>(nprocs) was constructed with.
MPI_Exscan(amount, r, target) ==
    IF r = 0 THEN 0 ELSE SumBelow(amount, r, target)

\* MPI_Reduce_scatter_block with one entry per rank: rank r receives the
\* sum of the entries r of all ranks.
MPI_Reduce_scatter_block(amount, np, r) == SumBelow(amount, np, r)

\* The subscripts an entry of a tensor of these dimensions can have.
Coords(dims) == {<<a, b>> : a \in 0 .. dims[1] - 1, b \in 0 .. dims[2] - 1}

TDimsVals == {<<2, 2>>, <<1, 2>>}

\* The vectors the ranks hold before the call: any entries of the tensor,
\* in any order, each with a value of its own.
InitRedistribute ==
    /\ DriverIdle
    /\ KernelIdle
    /\ algParams = <<>>
    /\ ParamsIdle
    /\ RunIdle
    /\ GridIdle
    /\ pmap \in Grids
    /\ TDims \in TDimsVals
    /\ nranks = nprocs(pmap)
    /\ file_nnz = 0
    /\ \E c \in [Ranks(pmap) -> UNION {[1 .. n -> Coords(TDims)] : n \in 0 .. MaxElems}] :
          Tvec = [r \in Ranks(pmap) |->
                    [k \in 1 .. Len(c[r]) |->
                        [coo |-> c[r][k], val |-> r * (MaxElems + 1) + k]]]
    /\ msgs = <<>>
    /\ isend_i = 0
    /\ nbytes_sent = <<>>
    /\ nbytes_recv = <<>>
    /\ dpc = <<>>
    /\ elems_to_write = <<>>
    /\ offset_to_write_at = <<>>
    /\ window = <<>>
    /\ writers = <<>>
    /\ put_i = <<>>
    /\ redistributedData = <<>>
    /\ wpc = "start"

\* Every rank up to the first fence: the entries sorted by owner, the
\* displacements from MPI_Exscan, the window from MPI_Win_allocate with
\* the size from MPI_Reduce_scatter_block.  A cell not yet written is <<>>.
WinAllocate ==
    /\ wpc = "start"
    /\ LET blocking == generateMediumGrainBlocking(TDims, pmap)
           elems == [r \in Ranks(pmap) |-> [t \in Ranks(pmap) |->
                       ElemsToWrite(Tvec[r], pmap, blocking, t)]]
           amount_to_write == [r \in Ranks(pmap) |-> [t \in Ranks(pmap) |->
                                 Len(elems[r][t])]]
           amount_to_allocate_for_window(r) ==
               MPI_Reduce_scatter_block(amount_to_write, nprocs(pmap), r)
       IN /\ elems_to_write' = elems
          /\ offset_to_write_at' = [r \in Ranks(pmap) |-> [t \in Ranks(pmap) |->
                                      MPI_Exscan(amount_to_write, r, t)]]
          /\ window' = [r \in Ranks(pmap) |->
                          [k \in 1 .. amount_to_allocate_for_window(r) |-> <<>>]]
          /\ writers' = [r \in Ranks(pmap) |->
                           [k \in 1 .. amount_to_allocate_for_window(r) |-> {}]]
    /\ put_i' = [r \in Ranks(pmap) |-> 0]
    /\ wpc' = "fenced"
    /\ UNCHANGED <<driverVars, kernelVars, paramVars, runVars, gridVars, distVars, pmap, TDims,
                   redistributedData>>

\* The cells of the target's window that the put of origin r covers.
Region(offsets, elems, r, target) ==
    offsets[r][target] + 1 .. offsets[r][target] + Len(elems[r][target])

\* One round of the loop of rank r: MPI_Put of its entries for rank
\* put_i[r] at its displacement in that rank's window.  A put that does
\* not fit the window is an error of the MPI library.
Put(r) ==
    /\ wpc = "fenced"
    /\ put_i[r] < nprocs(pmap)
    /\ LET t == put_i[r]
           cells == Region(offset_to_write_at, elems_to_write, r, t)
       IN IF cells \subseteq DOMAIN window[t]
          THEN /\ window' = [window EXCEPT ![t] = [k \in DOMAIN window[t] |->
                                IF k \in cells
                                THEN <<elems_to_write[r][t][k - offset_to_write_at[r][t]]>>
                                ELSE window[t][k]]]
               /\ writers' = [writers EXCEPT ![t] = [k \in DOMAIN writers[t] |->
                                IF k \in cells THEN writers[t][k] \cup {r}
                                ELSE writers[t][k]]]
               /\ put_i' = [put_i EXCEPT ![r] = t + 1]
               /\ wpc' = wpc
          ELSE /\ wpc' = "fault"
               /\ UNCHANGED <<window, writers, put_i>>
    /\ UNCHANGED <<driverVars, kernelVars, paramVars, runVars, gridVars, distVars, pmap, TDims,
                   elems_to_write, offset_to_write_at, redistributedData>>

\* The second fence, after the puts of every rank, and the copy of the
\* window into the vector returned.
FenceCopy ==
    /\ wpc = "fenced"
    /\ \A r \in Ranks(pmap) : put_i[r] = nprocs(pmap)
    /\ redistributedData' = window
    /\ wpc' = "done"
    /\ UNCHANGED <<driverVars, kernelVars, paramVars, runVars, gridVars, distVars, pmap, TDims,
                   elems_to_write, offset_to_write_at, window, writers, put_i>>

NextRedistribute ==
    \/ WinAllocate
    \/ \E r \in Ranks(pmap) : Put(r)
    \/ FenceCopy

SpecRedistribute == InitRedistribute /\ [][NextRedistribute]_vars

\* ------------------------------------------------ asynchronous iterator

\* Largest number of zero, and of nonzero, gradient samples per iteration.
MaxGradSamples == 1

\* Largest mttkrp_nnz_tile_size.
MaxTile == 2

\* Numbers of components of the model u.
NcVals == {3, 200}

\* pow(2.0, floor(log2(nc))): the largest power of two not above nc.
RECURSIVE pow2floor(_)
pow2floor(n) == IF n < 2 THEN 1 ELSE 2 * pow2floor(n \div 2)

\* Samples one call of the kernel is asked for.
num_samples(in) == (in.nsz + in.nsnz) * in.epoch_iters

\* Threads of a team that work on one sample together.
VectorSize(in) ==
    IF in.is_cuda
      THEN (IF pow2floor(in.nc) < 128 THEN pow2floor(in.nc) ELSE 128)
      ELSE 1

\* Samples a team works on at a time, one per thread of the team.
TeamSize(in) == IF in.is_cuda THEN 128 \div VectorSize(in) ELSE 1

\* const unsigned RowBlockSize = algParams.mttkrp_nnz_tile_size.
RowBlockSize(in) == in.mttkrp_nnz_tile_size

RowsPerTeam(in) == TeamSize(in) * RowBlockSize(in)

\* N, the size of the league: num_samples / RowsPerTeam, rounded up.
LeagueSize(in) == (num_samples(in) + RowsPerTeam(in) - 1) \div RowsPerTeam(in)

\* The steppers run() can hand to the kernel.
AsyncSteppers == {"sgd", "adagrad"}

\* run() is called with a sampler, a stepper and the parameters.
InitAsync ==
    /\ DriverIdle
    /\ KernelIdle
    /\ algParams = <<>>
    /\ ParamsIdle
    /\ LayoutIdle
    /\ CollIdle
    /\ asyncIn \in [nsz : 0 .. MaxGradSamples, nsnz : 0 .. MaxGradSamples,
                    epoch_iters : 1 .. MaxIters,
                    mttkrp_nnz_tile_size : 1 .. MaxTile,
                    is_cuda : BOOLEAN, nc : NcVals,
                    sampler : {"semi-stratified", "stratified"},
                    stepper : {"sgd", "adagrad", "adam"}]
    /\ team_ii = <<>>
    /\ nprocessed = 0
    /\ run_result = <<>>
    /\ apc = "run"

\* Genten::error: the sampler is not semi-stratified, or the stepper is
\* neither SGD nor AdaGrad.
RunError ==
    /\ apc = "run"
    /\ \/ asyncIn.sampler # "semi-stratified"
       \/ asyncIn.stepper \notin AsyncSteppers
    /\ apc' = "error"
    /\ UNCHANGED <<driverVars, kernelVars, paramVars, layoutVars, collVars, asyncIn, team_ii,
                   nprocessed, run_result>>

\* Kokkos::parallel_for over Policy(N, TeamSize, VectorSize).
Launch ==
    /\ apc = "run"
    /\ asyncIn.sampler = "semi-stratified"
    /\ asyncIn.stepper \in AsyncSteppers
    /\ team_ii' = [t \in 1 .. LeagueSize(asyncIn) |-> 0]
    /\ apc' = "kernel"
    /\ UNCHANGED <<driverVars, kernelVars, paramVars, layoutVars, collVars, asyncIn, nprocessed,
                   run_result>>

\* One pass of a team through the body of for (ii < RowBlockSize): each
\* thread of the team draws a sample, reads u, and applies the sample's
\* gradient contribution with stepper.eval_async.
TeamIter(t) ==
    /\ apc = "kernel"
    /\ team_ii[t] < RowBlockSize(asyncIn)
    /\ team_ii' = [team_ii EXCEPT ![t] = @ + 1]
    /\ nprocessed' = nprocessed + TeamSize(asyncIn)
    /\ UNCHANGED <<driverVars, kernelVars, paramVars, layoutVars, collVars, asyncIn, run_result, apc>>

\* The kernel is over; return this->algParams.epoch_iters.
RunReturn ==
    /\ apc = "kernel"
    /\ \A t \in DOMAIN team_ii : team_ii[t] = RowBlockSize(asyncIn)
    /\ run_result' = <<asyncIn.epoch_iters>>
    /\ apc' = "done"
    /\ UNCHANGED <<driverVars, kernelVars, paramVars, layoutVars, collVars, asyncIn, team_ii,
                   nprocessed>>

NextAsync ==
    \/ RunError
    \/ Launch
    \/ \E t \in DOMAIN team_ii : TeamIter(t)
    \/ RunReturn

SpecAsync == InitAsync /\ [][NextAsync]_vars

\* ------------------------------------------- ranks and collective calls
\* Grid shapes of the runs whose ranks proceed each at its own pace.
CollGrids == Grids \cup {<<2, 2>>}

\* The local parts of a fit estimate, Impl::gcp_value on the samples of
\* rank r: not a number or a value on every rank, and a larger value too
\* on rank 0, so that the sum can rise from one epoch to the next.
LocalFits(r) ==
    IF r = 0 THEN {NaN, <<TolDiv>>, <<TolDiv + 4>>} ELSE {NaN, <<TolDiv>>}

CollConfigs ==
    { c \in [method : {"trad", "fedopt"}, dp_iters : 1 .. MaxDp,
             epochIters : 0 .. MaxIters, maxEpochs : 0 .. MaxEpochs,
             grid : CollGrids] :
        c.method = "trad" => c.dp_iters = 1 }

\* MPI_Allreduce(.., MPI_SUM, cart_comm_) of the local parts loc of the
\* ranks S: a not-a-number part makes the sum not a number.
RECURSIVE SumFits(_, _)
SumFits(loc, S) ==
    IF S = {} THEN <<0>>
    ELSE LET r == CHOOSE r \in S : TRUE
             rest == SumFits(loc, S \ {r})
         IN IF isnan(loc[r]) \/ isnan(rest) THEN NaN
            ELSE <<Val(loc[r]) + Val(rest)>>

\* Mutant: only rank 0 leaves fedOpt on a fit that is not a number.
EarlyReturn_rootOnly(my_rank, f) == my_rank = 0 /\ isnan(f)

\* if (std::isnan(fest)) return fest_best; in the branch of rank 0 and in
\* the branch of the other ranks alike.
EarlyReturn(my_rank, f) == isnan(f)

\* The accept test on the locals of a rank, where fest_prev and fest_best
\* can be not a number too.
AcceptsFit(prev, f, best) ==
    /\ ~isnan(prev)
    /\ ~isnan(best)
    /\ Accepts(Val(prev), f, Val(best))

IsBestFit(f, best) == ~isnan(best) /\ IsBest(f, Val(best))

\* The locals of a rank: where it is in the method, the loop variables e
\* and i of the epochs and iterations, m of the modes in allReduceKT and
\* gth of the three gathers, the fits, and the calls and decisions it has
\* made so far.
ProcStates ==
    [pos : STRING, after : STRING, e : Nat, i : Nat, m : Nat, gth : Nat,
     fest : Seq(Nat), fest_prev : Seq(Nat), fest_best : Seq(Nat),
     calls : Seq(STRING), decisions : Seq(STRING), ret : Seq(Seq(Nat))]

\* A rank as it enters allReduceTrad or fedOpt.
ProcInit ==
    [pos |-> "begin", after |-> "begin", e |-> 0, i |-> 0, m |-> 1, gth |-> 1,
     fest |-> NaN, fest_prev |-> NaN, fest_best |-> NaN,
     calls |-> <<>>, decisions |-> <<>>, ret |-> <<>>]

\* The name of a collective call together with its communicator's kind.
ModeOp(m) == IF m = 1 THEN "MPI_Allreduce subComm(0)" ELSE "MPI_Allreduce subComm(1)"

\* The position s.pos is a collective call the rank makes next.
AtCall(c, s) ==
    \/ s.pos \in {"fit0", "bar0", "barE", "fit", "barF", "gather"}
    \/ /\ s.pos = "kt"
       /\ nprocs(c.grid) # 1
       /\ s.m <= nd
       /\ subCommSizes(c.grid, s.m) # 1

\* The call made at a position, and the ranks that take part in it.
CallOf(c, my_rank, s) ==
    CASE s.pos = "kt" ->
           [op |-> ModeOp(s.m), comm |-> subComm(c.grid, my_rank, s.m)]
      [] s.pos \in {"fit0", "fit"} ->
           [op |-> "gridAllReduce", comm |-> Ranks(c.grid)]
      [] s.pos \in {"bar0", "barE", "barF"} ->
           [op |-> "gridBarrier", comm |-> Ranks(c.grid)]
      [] s.pos = "gather" ->
           [op |-> "MPI_Gather", comm |-> Ranks(c.grid)]

\* The accept / reject statements at the end of an epoch.
Decide(c, s) ==
    IF AcceptsFit(s.fest_prev, s.fest, s.fest_best)
      THEN [s EXCEPT !.fest_prev = s.fest,
                     !.fest_best = IF IsBestFit(s.fest, s.fest_best)
                                     THEN s.fest ELSE @,
                     !.decisions = Append(@, "accept"),
                     !.e = @ + 1, !.pos = "epoch"]
      ELSE [s EXCEPT !.fest = IF c.method = "trad" THEN s.fest_prev
                              ELSE s.fest_best,
                     !.decisions = Append(@, "reject"),
                     !.e = @ + 1, !.pos = "epoch"]

\* One stretch of local statements of a rank, from a position that is not
\* a collective call.
LocalNext(c, my_rank, s) ==
    CASE s.pos = "begin" ->
           IF c.method = "trad" THEN [s EXCEPT !.pos = "fit0"]
           ELSE [s EXCEPT !.pos = "kt", !.m = 1, !.after = "fit0"]
      [] s.pos = "kt" ->
           IF nprocs(c.grid) = 1 \/ s.m > nd THEN [s EXCEPT !.pos = s.after]
           ELSE [s EXCEPT !.m = @ + 1]
      [] s.pos = "epoch" ->
           IF s.e < c.maxEpochs
             THEN (IF c.method = "trad" THEN [s EXCEPT !.pos = "barE"]
                   ELSE [s EXCEPT !.pos = "iter", !.i = 0])
             ELSE [s EXCEPT !.pos = "done", !.ret = <<s.fest_prev>>]
      [] s.pos = "iter" ->
           IF s.i < c.epochIters
             THEN (IF c.method = "trad" \/ SyncDue(s.i, c.dp_iters, c.epochIters)
                     THEN [s EXCEPT !.pos = "kt", !.m = 1, !.after = "iter_end"]
                     ELSE [s EXCEPT !.i = @ + 1])
             ELSE [s EXCEPT !.pos = "fit"]
      [] s.pos = "iter_end" -> [s EXCEPT !.pos = "iter", !.i = @ + 1]
      [] s.pos = "nan" ->
           IF EarlyReturn(my_rank, s.fest)
             THEN [s EXCEPT !.pos = "done", !.ret = <<s.fest_best>>]
             ELSE [s EXCEPT !.pos = "gather", !.gth = 1]
      [] s.pos = "decide" -> Decide(c, s)

\* A rank runs its local statements up to its next collective call or up
\* to its return.
RunToCall(c, my_rank, s0) ==
    LET run[s \in ProcStates] ==
            IF s.pos = "done" \/ AtCall(c, s) THEN s
            ELSE run[LocalNext(c, my_rank, s)]
    IN run[s0]

\* The statements that follow a collective call that has returned result.
OnComplete(c, s, result) ==
    CASE s.pos = "kt" -> [s EXCEPT !.m = @ + 1]
      [] s.pos = "fit0" ->
           IF c.method = "trad"
             THEN [s EXCEPT !.fest = result, !.fest_best = result, !.pos = "bar0"]
             ELSE [s EXCEPT !.fest = result, !.fest_best = result,
                            !.fest_prev = result, !.pos = "epoch"]
      [] s.pos = "bar0" -> [s EXCEPT !.fest_prev = s.fest, !.pos = "epoch"]
      [] s.pos = "barE" -> [s EXCEPT !.pos = "iter", !.i = 0]
      [] s.pos = "fit" ->
           [s EXCEPT !.fest = result,
                     !.pos = IF c.method = "trad" THEN "barF" ELSE "nan"]
      [] s.pos = "barF" -> [s EXCEPT !.pos = "gather", !.gth = 1]
      [] s.pos = "gather" ->
           IF s.gth < 3 THEN [s EXCEPT !.gth = @ + 1]
           ELSE [s EXCEPT !.pos = "decide"]

\* What the ranks of a communicator hand to a collective call: their local
\* parts of the fit to gridAllReduce; what the other calls move does not
\* steer any rank.
LocalParts(comm, op) ==
    IF op = "gridAllReduce"
      THEN {loc \in [comm -> {NaN, <<TolDiv>>, <<TolDiv + 4>>}] :
              \A q \in comm : loc[q] \in LocalFits(q)}
      ELSE {[q \in comm |-> NaN]}

\* mpirun starts the method on every rank of the grid.
InitColl ==
    /\ DriverIdle
    /\ KernelIdle
    /\ algParams = <<>>
    /\ ParamsIdle
    /\ LayoutIdle
    /\ AsyncIdle
    /\ ccfg \in CollConfigs
    /\ proc = [r \in Ranks(ccfg.grid) |-> ProcInit]
    /\ blocked = [r \in Ranks(ccfg.grid) |-> <<>>]

\* Rank r runs on to its next collective call, enters it and blocks there,
\* or returns from the method.
Call(r) ==
    /\ blocked[r] = <<>>
    /\ proc[r].pos # "done"
    /\ LET s == RunToCall(ccfg, r, proc[r])
       IN IF s.pos = "done"
            THEN /\ proc' = [proc EXCEPT ![r] = s]
                 /\ UNCHANGED blocked
            ELSE /\ proc' = [proc EXCEPT ![r] =
                                [s EXCEPT !.calls = Append(@, CallOf(ccfg, r, s).op)]]
                 /\ blocked' = [blocked EXCEPT ![r] = CallOf(ccfg, r, s)]
    /\ UNCHANGED <<driverVars, kernelVars, paramVars, layoutVars, asyncVars, ccfg>>

\* Every rank of a communicator has entered the same collective call on
\* it: the call returns on each of them, an all-reduce with the same sum.
Complete(comm, op) ==
    /\ \A q \in comm : blocked[q] = [op |-> op, comm |-> comm]
    /\ \E loc \in LocalParts(comm, op) :
          proc' = [q \in DOMAIN proc |->
                     IF q \in comm
                       THEN OnComplete(ccfg, proc[q], SumFits(loc, comm))
                       ELSE proc[q]]
    /\ blocked' = [q \in DOMAIN blocked |-> IF q \in comm THEN <<>> ELSE blocked[q]]
    /\ UNCHANGED <<driverVars, kernelVars, paramVars, layoutVars, asyncVars, ccfg>>

NextColl ==
    \/ \E r \in DOMAIN proc : Call(r)
    \/ \E r \in DOMAIN proc :
          /\ blocked[r] # <<>>
          /\ Complete(blocked[r].comm, blocked[r].op)

SpecColl == InitColl /\ [][NextColl]_vars

\* Every rank keeps running, and a collective call that every rank of its
\* communicator has entered returns.
SpecCollFair == SpecColl /\ WF_vars(NextColl)

\* ====================================================================
\* Claims
\* ====================================================================

\* The accept test of the epoch loop, written out: fest is a number and
\* fest_prev - fest > -0.001 * fest_best.
TestPasses ==
    IF fest = NaN THEN FALSE
    ELSE TolDiv * (fest_prev - fest[1]) > -fest_best

\* The accept test is evaluated in this state (fedOpt has not returned on
\* a NaN fit).
AtTest == pc = "decide" /\ ~(IsFed /\ fest = NaN)

AcceptedCalls ==
    /\ annealer' = [annealer EXCEPT !.success = @ + 1]
    /\ stepper' = [stepper EXCEPT !.passed = @ + 1]
    /\ IsFed => meta_stepper' = [meta_stepper EXCEPT !.passed = @ + 1]

\* C1 as stated: every epoch that passes the accept test is accepted, and
\* every accepted epoch sets u_best := u and calls annealer.success() and
\* setPassed() (also on the meta stepper in fedOpt).
C1_EveryAcceptSnapshots ==
    [][(AtTest /\ TestPasses) => (u_best' = u /\ AcceptedCalls)]_vars

\* C1 amended: every epoch that passes the accept test is accepted: it
\* calls annealer.success() and setPassed() (also on the meta stepper in
\* fedOpt) and sets fest_prev := fest; it records the snapshot
\* (u_best := u, fest_best := fest) only if fest < fest_best, and leaves
\* u_best and fest_best unchanged otherwise.
C1_AcceptSnapshotsOnlyIfBest ==
    [][(AtTest /\ TestPasses) =>
          /\ AcceptedCalls
          /\ fest_prev' = fest[1]
          /\ u' = u
          /\ IF fest[1] < fest_best
             THEN u_best' = u /\ fest_best' = fest[1]
             ELSE u_best' = u_best /\ fest_best' = fest_best]_vars

\* An epoch was accepted without being the best: the parameters moved on
\* and the snapshot stayed behind.
C1_Witness ==
    /\ pc = "epoch"
    /\ annealer.success >= 1
    /\ fest_prev > fest_best
    /\ u # u_best

C3_ReturnsBestFit == pc = "done" => ret = fest_best

\* C4: when compute() finishes, Kfac_ equals the best snapshot u_best, for
\* either strategy.
C4_KfacIsBest == pc = "done" => Kfac_ = u_best

\* C5: a NaN fit estimate stops the epoch loop at that epoch, in both
\* strategies, and compute() returns the best-known result.
C5_NaNStopsLoop ==
    [][(pc = "decide" /\ fest = NaN) => (pc' = "done" /\ ret' = fest_best)]_vars

\* C6: once the wall-clock budget is exceeded no new epoch is started.
C6_NoEpochAfterBudget == timeUp => pc \in {"epoch", "done"}

\* The sum over the sub-communicator of mode m of the local gradients of
\* batch s.
LocalSum(grid, s, r, m) ==
    SumOver([q \in Ranks(grid) |-> [mm \in Modes |-> LocalGrad(s, q, mm)]],
            {q \in Ranks(grid) : Coord(grid, q, m) = Coord(grid, r, m)}, m)

\* C7: in every allReduceTrad iteration the gradient is zeroed, then holds
\* the local gradient of this iteration's batch alone, then the plain sum
\* of those over each mode's sub-communicator, and only that sum is what
\* stepper.eval consumes.
C7_TradIterationOrder ==
    [][IsTrad =>
          /\ pc = "zero" => (pc' = "grad" /\ g' = zero(cfg.grid))
          /\ pc = "grad" =>
                /\ pc' = "reduce"
                /\ \A r \in Ranks(cfg.grid) : \A m \in Modes :
                      g'[r][m] = LocalGrad(draw', r, m)
          /\ pc = "reduce" =>
                /\ pc' = "eval"
                /\ draw' = draw
                /\ \A r \in Ranks(cfg.grid) : \A m \in Modes :
                      g'[r][m] = LocalSum(cfg.grid, draw, r, m)
          /\ pc' = "eval" => pc = "reduce"
          /\ pc = "eval" => (g' = g /\ i' = i + 1 /\ pc' \in {"zero", "fit"})]_vars

\* In a later iteration of an epoch on two ranks, stepper.eval is about
\* to consume a gradient that differs from the local one.
C7_Witness ==
    /\ IsTrad
    /\ pc = "eval"
    /\ i >= 1
    /\ nprocs(cfg.grid) = 2
    /\ \E r \in Ranks(cfg.grid) : \E m \in Modes :
          /\ g[r][m] # LocalGrad(draw, r, m)
          /\ g[r][m] # 0

\* The rows of mode m are the same on all ranks of its sub-communicator.
Consistent(x) ==
    \A m \in Modes : \A r \in Ranks(cfg.grid) :
       \A q \in subComm(cfg.grid, r, m) : x[r][m] = x[q][m]

\* C8: under allReduceTrad the replicated rows of u stay identical across
\* each sub-communicator after every iteration, accept and rollback.
C8_TradKeepsReplicasEqual ==
    (IsTrad /\ pc # "start") => (Consistent(u) /\ Consistent(u_best))

\* Two ranks with different local gradients, after an accepted and a
\* rejected epoch.
C8_Witness ==
    /\ IsTrad
    /\ nprocs(cfg.grid) = 2
    /\ pc = "epoch"
    /\ annealer.success >= 1
    /\ annealer.failed >= 1
    /\ u # Kfac_
    /\ \E m \in Modes : LocalGrad(draw, 0, m) # LocalGrad(draw, 1, m)

\* C9: in fedOpt a synchronisation follows local iteration i exactly when
\* (i + 1) mod d = 0 or i = epoch_iters - 1; no rank takes more than d
\* local steps without one, and the fit is evaluated right after one.
C9_SyncSchedule ==
    /\ [][(IsFed /\ pc = "eval") =>
             (pc' = "sync" <=>
                ((i + 1) % cfg.dp_iters = 0 \/ i = cfg.epochIters - 1))]_vars
    /\ [](IsFed => sinceSync <= cfg.dp_iters)
    /\ []((IsFed /\ pc = "fit" /\ cfg.epochIters >= 1) => sinceSync = 0)

\* The fit is evaluated after an epoch whose length is no multiple of d.
C9_Witness ==
    /\ IsFed
    /\ pc = "fit"
    /\ cfg.epochIters % cfg.dp_iters # 0
    /\ allreduceCounter >= 1

\* C10 is about fedOpt with downpour_iters = 1 and fedavg = true, in the
\* states that follow the synchronisation of an iteration.
C10_Case ==
    /\ IsFed
    /\ cfg.fedavg
    /\ cfg.dp_iters = 1
    /\ pc \in {"zero", "fit"}
    /\ i >= 1

\* C10 as stated: from the same parameters, batch and step the iteration
\* of fedOpt leaves the parameters that the iteration of allReduceTrad
\* with the SGD stepper leaves.
C10_SameAsTrad ==
    C10_Case => u = TradIteration(cfg.grid, epoch_lr, draw, u_iter)

\* C10 amended: fedOpt moves the rows of each mode by the mean of the
\* per-rank gradients where allReduceTrad moves them by the sum: its
\* displacement is that of allReduceTrad divided by the size of the mode's
\* sub-communicator.
C10_TradScaledBySubComm ==
    C10_Case =>
       \A r \in Ranks(cfg.grid) : \A m \in Modes :
          (u_iter[r][m] - u[r][m]) * subCommSizes(cfg.grid, m)
             = u_iter[r][m]
                  - TradIteration(cfg.grid, epoch_lr, draw, u_iter)[r][m]

\* Two ranks share the rows of a mode and the iteration moved them.
C10_Witness ==
    /\ C10_Case
    /\ nprocs(cfg.grid) = 2
    /\ \E r \in Ranks(cfg.grid) : \E m \in Modes :
          /\ subCommSizes(cfg.grid, m) = 2
          /\ u[r][m] # u_iter[r][m]
          /\ LocalGrad(draw, 0, m) # LocalGrad(draw, 1, m)

\* C11: with a single process allReduceKT returns its argument for either
\* value of divide_by_grid_size and calls no collective, so the gradient
\* that stepper.eval consumes in every iteration of either driver is the
\* locally computed one, and the averaging of fedOpt leaves u as it is.
C11_SingleProcessNoReduction ==
    [][nprocs(cfg.grid) = 1 =>
          /\ CollectiveModes(cfg.grid) = {}
          /\ \A d \in BOOLEAN :
                AllReduceKT(cfg.grid, g, d) = g /\ AllReduceKT(cfg.grid, u, d) = u
          /\ pc = "reduce" => g' = g
          /\ (pc = "sync" /\ cfg.fedavg) => u' = u
          /\ pc' = "eval" => g' = fusedGradient(cfg.grid, draw', zero(cfg.grid))
          /\ pc = "eval" =>
                u' = SGDStep_eval(cfg.grid, epoch_lr,
                                  fusedGradient(cfg.grid, draw, zero(cfg.grid)), u)]_vars

\* A single process is about to step, in a later iteration of an epoch of
\* allReduceTrad, with a gradient that is not zero.
C11_Witness ==
    /\ IsTrad
    /\ nprocs(cfg.grid) = 1
    /\ pc = "eval"
    /\ i >= 1
    /\ g # zero(cfg.grid)
    /\ u # Kfac_

\* C12 as stated: after every epoch fest_prev <= fest_best + 0.001 *
\* fest_best, and a rejected epoch leaves fest_prev unchanged.
C12_WithinBandOfBest ==
    /\ [](pc = "epoch" => TolDiv * fest_prev <= (TolDiv + 1) * fest_best)
    /\ [][(AtTest /\ ~TestPasses) => fest_prev' = fest_prev]_vars

\* C12 amended: the tolerance band is taken around the previously accepted
\* fit, not around the best one: an accepted epoch sets fest_prev to a fit
\* below fest_prev + 0.001 * fest_best, so accepted regressions can add
\* up; a rejected epoch leaves fest_prev unchanged.
C12_WithinBandOfPrevious ==
    [][pc = "decide" =>
          /\ TolDiv * (fest_prev' - fest_prev) < fest_best
          /\ (AtTest /\ TestPasses) => fest_prev' = fest[1]
          /\ (AtTest /\ ~TestPasses) => fest_prev' = fest_prev]_vars

\* Two accepted epochs, each inside the band around the fit before it,
\* have left fest_prev outside the band around fest_best.
C12_Witness ==
    /\ pc = "epoch"
    /\ annealer.success = 2
    /\ TolDiv * fest_prev > (TolDiv + 1) * fest_best

\* The gradient of the pass when one thread makes all additions in league
\* order.
SerialGradient ==
    AddAll(ZeroG(Len(modes)),
           Additions(M, Mt, have_Mprev, modes, batch, [x \in DOMAIN batch |-> 1], 1, 1))

\* C13: for a fixed batch and fixed factors the gradient left by one
\* accumulation pass is the same for every assignment of the samples to
\* threads and every interleaving of their additions, for each of the
\* Single, Atomic and Duplicated strategies: no addition is lost or made
\* twice.
C13_AccumulationOrderFree == kpc = "done" => G = SerialGradient

\* C14: given the same samples, the same M, Mt and Mprev and the same mode
\* list, the atomic kernel and the scatter-view kernel leave the same
\* gradient: the same contributions in the same matrices and rows, for
\* both strata, with the previous-window term, for every mode list.
C14_KernelsAgree == kpc = "done" => G_atomic = G

\* The smallest integer not below a / b.
Ceil(a, b) == -((-a) \div b)

\* C15: the constructor of SemiStratifiedSampler keeps every non-zero
\* sample count and replaces a count of 0: nonzero value samples by
\* min(max(ceil(nnz/100), 100000), nnz), zero value samples by min(nonzero
\* value samples, numel - nnz), nonzero gradient samples by
\* min(max(ceil(3*nnz/maxEpochs), 1000), nnz), zero gradient samples by
\* min(nonzero gradient samples, numel - nnz).
C15_SampleCountDefaults ==
    ppc = "constructed" =>
       LET a == algParams
           sm == sampler
           zeros == X.numel - X.nnz
       IN /\ sm.num_samples_nonzeros_value =
                IF a.num_samples_nonzeros_value # 0
                THEN a.num_samples_nonzeros_value
                ELSE Min(Max(Ceil(X.nnz, 100), 100000), X.nnz)
          /\ sm.num_samples_zeros_value =
                IF a.num_samples_zeros_value # 0
                THEN a.num_samples_zeros_value
                ELSE Min(sm.num_samples_nonzeros_value, zeros)
          /\ sm.num_samples_nonzeros_grad =
                IF a.num_samples_nonzeros_grad # 0
                THEN a.num_samples_nonzeros_grad
                ELSE Min(Max(Ceil(3 * X.nnz, a.maxiters), 1000), X.nnz)
          /\ sm.num_samples_zeros_grad =
                IF a.num_samples_zeros_grad # 0
                THEN a.num_samples_zeros_grad
                ELSE Min(sm.num_samples_nonzeros_grad, zeros)

\* A sampler whose four counts were all defaulted, for a tensor large
\* enough that the 1% and the per-epoch terms exceed their floors.
C15_Witness ==
    /\ ppc = "constructed"
    /\ algParams.num_samples_nonzeros_value = 0
    /\ algParams.num_samples_zeros_value = 0
    /\ algParams.num_samples_nonzeros_grad = 0
    /\ algParams.num_samples_zeros_grad = 0
    /\ sampler.num_samples_nonzeros_value > 100000
    /\ sampler.num_samples_nonzeros_grad > 1000
    /\ sampler.num_samples_zeros_grad > 0

\* weight * count = population, for a weight held as a fraction.
WeightTimesCount(w, count, population) ==
    w[2] # 0 /\ w[1] * count = population * w[2]

\* C16 as stated: an unspecified (negative) weight is set so that weight *
\* sample count = nnz for the nonzero value and gradient strata and
\* = numel - nnz for the zero value and gradient strata; a non-negative
\* weight is kept.
C16_WeightIsPopulationOverCount ==
    ppc = "constructed" =>
       LET a == algParams
           sm == sampler
           zeros == X.numel - X.nnz
       IN /\ IF a.w_f_nz[1] < 0
             THEN WeightTimesCount(sm.weight_nonzeros_value,
                                   sm.num_samples_nonzeros_value, X.nnz)
             ELSE sm.weight_nonzeros_value = a.w_f_nz
          /\ IF a.w_f_z[1] < 0
             THEN WeightTimesCount(sm.weight_zeros_value,
                                   sm.num_samples_zeros_value, zeros)
             ELSE sm.weight_zeros_value = a.w_f_z
          /\ IF a.w_g_nz[1] < 0
             THEN WeightTimesCount(sm.weight_nonzeros_grad,
                                   sm.num_samples_nonzeros_grad, X.nnz)
             ELSE sm.weight_nonzeros_grad = a.w_g_nz
          /\ IF a.w_g_z[1] < 0
             THEN WeightTimesCount(sm.weight_zeros_grad,
                                   sm.num_samples_zeros_grad, zeros)
             ELSE sm.weight_zeros_grad = a.w_g_z

\* C16 amended: an unspecified (negative) weight is set to the quotient
\* population / sample count of its stratum, where the population is nnz
\* for the nonzero value and gradient strata, numel - nnz for the zero
\* value stratum and numel (all entries, not only the zeros) for the zero
\* gradient stratum; the quotient is taken also when the sample count is
\* 0; a non-negative weight is kept.
C16_WeightIsQuotient ==
    ppc = "constructed" =>
       LET a == algParams
           sm == sampler
       IN /\ sm.weight_nonzeros_value =
                IF a.w_f_nz[1] < 0
                THEN <<X.nnz, sm.num_samples_nonzeros_value>> ELSE a.w_f_nz
          /\ sm.weight_zeros_value =
                IF a.w_f_z[1] < 0
                THEN <<X.numel - X.nnz, sm.num_samples_zeros_value>> ELSE a.w_f_z
          /\ sm.weight_nonzeros_grad =
                IF a.w_g_nz[1] < 0
                THEN <<X.nnz, sm.num_samples_nonzeros_grad>> ELSE a.w_g_nz
          /\ sm.weight_zeros_grad =
                IF a.w_g_z[1] < 0
                THEN <<X.numel, sm.num_samples_zeros_grad>> ELSE a.w_g_z

\* All four weights were left unspecified for a tensor with nonzeros and
\* zeros, and the zero gradient weight times its count is numel.
C16_Witness ==
    /\ ppc = "constructed"
    /\ \A f \in {"w_f_nz", "w_f_z", "w_g_nz", "w_g_z"} : algParams[f][1] < 0
    /\ X.nnz > 0
    /\ X.numel > X.nnz
    /\ sampler.num_samples_zeros_grad > 0
    /\ WeightTimesCount(sampler.weight_zeros_grad,
                        sampler.num_samples_zeros_grad, X.numel)
    /\ WeightTimesCount(sampler.weight_zeros_value,
                        sampler.num_samples_zeros_value, X.numel - X.nnz)

\* C19: on a Cuda execution space fixup ends, for every combination of the
\* user's choices, with mttkrp_method and mttkrp_all_method other than
\* Default, Single and Duplicated, and with mttkrp_all_method = Atomic
\* when method = GCP_SGD, sampling = SemiStratified and fuse = true; it
\* changes an incompatible choice and raises no error, and it changes
\* nothing but the two methods.
C19_FixupOnCuda ==
    [][(ppc = "given" /\ space.is_cuda) =>
          /\ ppc' = "fixed"
          /\ algParams'.mttkrp_method \notin {"Default", "Single", "Duplicated"}
          /\ algParams'.mttkrp_all_method \notin {"Default", "Single", "Duplicated"}
          /\ FusedSemiStratified(algParams) =>
                algParams'.mttkrp_all_method = "Atomic"
          /\ algParams'.method = algParams.method
          /\ algParams'.sampling_type = algParams.sampling_type
          /\ algParams'.fuse = algParams.fuse]_vars

\* On Cuda without fast atomics the user asked for Iterated with fused
\* semi-stratified GCP-SGD and for Duplicated MTTKRP; both were changed.
C19_Witness ==
    /\ ppc = "fixed"
    /\ space.is_cuda
    /\ ~FastAtomics(space)
    /\ FusedSemiStratified(input_)
    /\ input_.mttkrp_all_method = "Iterated"
    /\ input_.mttkrp_method = "Duplicated"
    /\ algParams.mttkrp_all_method = "Atomic"
    /\ algParams.mttkrp_method = "Perm"

WeightFields ==
    {"weight_nonzeros_value", "weight_zeros_value", "weight_nonzeros_grad",
     "weight_zeros_grad"}

\* C17: with batch_size_nz = 0 the set-up of the distributed solver goes
\* through, every rank's sampler uses a positive nonzero gradient sample
\* count, and no weight is the result of a division by a zero sample
\* count, whatever the local numbers of nonzeros.
C17_ZeroBatchClampedPositive ==
    input_.batch_size_nz = 0 =>
       /\ ppc # "fault"
       /\ ppc = "constructed" =>
             \A r \in ProcRanks(spTensor_) :
                /\ sampler[r].num_samples_nonzeros_grad > 0
                /\ \A f \in WeightFields : sampler[r][f][2] # 0

\* C18: after setAlgParams and after the construction of the sampler, on
\* every rank the nonzero gradient and value counts are at most the local
\* nnz and the zero gradient and value counts at most the local number of
\* zeros; a size whose share per rank exceeds the population of a rank is
\* cut down to it, and no size that is too large makes the set-up fail: it
\* fails only where the share of batch_size_nz per rank is 0.
C18_CountsWithinPopulation ==
    LET t == spTensor_
        Within(c, r) ==
           /\ c.num_samples_nonzeros_grad <= t.lnz[r]
           /\ c.num_samples_nonzeros_value <= t.lnz[r]
           /\ c.num_samples_zeros_grad <= t.lz[r]
           /\ c.num_samples_zeros_value <= t.lz[r]
    IN /\ ppc \in {"params", "constructed"} =>
             \A r \in ProcRanks(t) : Within(algParams[r], r)
       /\ ppc = "constructed" => \A r \in ProcRanks(t) : Within(sampler[r], r)
       /\ ppc = "fault" => input_.batch_size_nz \div t.nprocs = 0

\* Two ranks, one of which holds fewer nonzeros and zeros than its share
\* of the batch and of the value sample: its four counts are its
\* populations.
C18_Witness ==
    /\ ppc = "constructed"
    /\ spTensor_.nprocs = 2
    /\ \E r \in ProcRanks(spTensor_) :
          /\ spTensor_.lnz[r] > 0
          /\ spTensor_.lz[r] > 0
          /\ input_.batch_size_nz \div 2 > spTensor_.lnz[r]
          /\ input_.value_size_nz \div 2 > spTensor_.lnz[r]
          /\ get(input_.batch_size_zero, input_.batch_size_nz) \div 2
                > spTensor_.lz[r]
          /\ sampler[r].num_samples_nonzeros_grad = spTensor_.lnz[r]
          /\ sampler[r].num_samples_nonzeros_value = spTensor_.lnz[r]
          /\ sampler[r].num_samples_zeros_grad = spTensor_.lz[r]
          /\ sampler[r].num_samples_zeros_value = spTensor_.lz[r]

\* C20: two runs with the same configuration, the same configured seed
\* and the same tensor have the same factor trajectory: the initial
\* factors and every later state of the factors agree.
C20_SameSeedSameTrajectory ==
    (input_.seed # <<>> /\ \A k \in RunIds : runs[k].pos = "built") =>
       \A j \in 1 .. Min(Len(runs[1].trajectory), Len(runs[2].trajectory)) :
          runs[1].trajectory[j] = runs[2].trajectory[j]

\* The grids of positive integers, one entry per mode, with product np.
GridsOf(np, n) == {gr \in [1 .. n -> 1 .. np] : accumulate(gr) = np}

\* C21: the grid minFactorSpaceGrid returns has one entry >= 1 per mode,
\* its product is nprocs, and no grid of positive integers with product
\* nprocs needs less storage for the replicated factors.
C21_GridIsMinimal ==
    lpc = "gridded" =>
       /\ cartGrid \in GridsOf(gridProcs, Len(tensor_dims))
       /\ \A gr \in GridsOf(gridProcs, Len(tensor_dims)) :
             nelementsForRank1Factors(cartGrid, tensor_dims)
                <= nelementsForRank1Factors(gr, tensor_dims)

\* C22: singleDimMediumGrainBlocking returns, its assertions holding, a
\* non-decreasing range of ProcsInMode + 1 entries from 0 to ModeLength
\* whose blocks differ in size by at most one.
C22_BlockingWellFormed ==
    lpc \in {"blocked", "aborted"} =>
       /\ lpc = "blocked"
       /\ Len(Range) = ProcsInMode + 1
       /\ Range[1] = 0
       /\ Range[Len(Range)] = ModeLength
       /\ \A k \in 1 .. Len(Range) - 1 : Range[k] <= Range[k + 1]
       /\ \A k, l \in 1 .. Len(Range) - 1 :
             (Range[k + 1] - Range[k]) - (Range[l + 1] - Range[l]) <= 1

\* The entries of block r of the blocking of nnz over the ranks.
BlockOf(r) == [k \in 1 .. wgw(r + 1) - wgw(r) |-> wgw(r) + k]

\* C23: once every rank has returned from distributeTensorToVectors,
\* every entry read on rank 0 is held by exactly one rank, rank r holds
\* block r of the blocking, and rank 0 sent to every rank as many bytes
\* as that rank received.
C23_VectorsPartitionEntries ==
    (\A r \in DistRanks : dpc[r] = "done") =>
       /\ \A en \in 1 .. file_nnz :
             Cardinality({rk \in {<<r, k>> : r \in DistRanks, k \in 1 .. file_nnz} :
                             /\ rk[2] <= Len(Tvec[rk[1]])
                             /\ Tvec[rk[1]][rk[2]] = en}) = 1
       /\ \A r \in DistRanks : Tvec[r] = BlockOf(r)
       /\ \A r \in DistRanks \ {0} : nbytes_sent[r] = nbytes_recv[r]

\* The pairs <<rank, index>> at which the vectors hold the entry given.
HeldAt(vecs, elem) ==
    {rk \in UNION {{<<r, k>> : k \in DOMAIN vecs[r]} : r \in DOMAIN vecs} :
        vecs[rk[1]][rk[2]] = elem}

C25_SingleThreadIsSingle ==
    (ppc = "fixed" /\ ~space.is_cuda /\ space.concurrency = 1) =>
       /\ input_.mttkrp_method = "Default" => algParams.mttkrp_method = "Single"
       /\ input_.mttkrp_all_method = "Default" =>
             algParams.mttkrp_all_method = "Single"

\* C26: when epoch_size is not configured, setAlgParams goes through with
\* a positive global nonzero batch size, the sum of the ranks' nonzero
\* gradient sample counts, and sets epoch_iters to the global number of
\* nonzeros divided by it, rounded down, which is at least 1.
C26_EpochItersFromBatch ==
    (input_.epoch_size = <<>> /\ ppc # "input") =>
       /\ ppc # "fault"
       /\ GlobalBatch(input_, spTensor_) > 0
       /\ \A r \in ProcRanks(spTensor_) :
             /\ algParams[r].epoch_iters
                   = gnz(spTensor_) \div GlobalBatch(input_, spTensor_)
             /\ algParams[r].epoch_iters >= 1

\* C28: at every epoch boundary fest_best <= fest_prev; fest_best never
\* increases; fest_best and u_best change only together, when the fit just
\* measured at u is recorded as the best fit with u as its snapshot (at the
\* start of the driver and on an accepted epoch), so u_best holds the
\* parameters at which fest_best was measured and no gradient, step,
\* all-reduce or rollback on u changes it.
C28_BestSnapshotInvariant ==
    /\ [](pc = "epoch" => fest_best <= fest_prev)
    /\ [][/\ pc # "start" => fest_best' <= fest_best
          /\ (u_best' # u_best \/ fest_best' # fest_best) =>
                \/ /\ pc = "start"
                   /\ u_best' = u'
                   /\ fest' = <<fest_best'>>
                \/ /\ pc = "decide"
                   /\ Accepts(fest_prev, fest, fest_best)
                   /\ fest = <<fest_best'>>
                   /\ u_best' = u
                   /\ u' = u]_vars

\* An epoch was accepted within the tolerance without being the best: u
\* moved on and the snapshot stayed behind.
C28_Witness ==
    /\ pc = "epoch"
    /\ e >= 1
    /\ stepper.passed >= 1
    /\ fest_best < fest_prev
    /\ u # u_best

\* C29: in fedOpt without fedavg, a rejected epoch leaves the shared meta
\* parameters meta_u equal to the best snapshot, from which the local
\* training of the next epoch starts.
C29_MetaRestartsFromBest ==
    [][(IsFed /\ ~cfg.fedavg /\ pc = "decide" /\ pc' = "epoch"
          /\ ~Accepts(fest_prev, fest, fest_best)) =>
          /\ u' = u_best'
          /\ meta_u' = u_best']_vars


\* C30: one run of the asynchronous iterator processes exactly
\* (nsz + nsnz) * epoch_iters samples, the teams times the team size times
\* RowBlockSize, and run() reports epoch_iters iterations.
C30_AsyncSampleCount ==
    apc = "done" =>
        /\ nprocessed = LeagueSize(asyncIn) * TeamSize(asyncIn) * RowBlockSize(asyncIn)
        /\ nprocessed = num_samples(asyncIn)
        /\ run_result = <<asyncIn.epoch_iters>>


IsPrefix(a, b) == Len(a) <= Len(b) /\ SubSeq(b, 1, Len(a)) = a

AllReturned == \A r \in DOMAIN proc : proc[r].pos = "done"

\* Any two ranks have made the same collective calls and taken the same
\* decisions as far as both have come, and end alike.
SameCourse ==
    \A r, q \in DOMAIN proc :
        /\ IsPrefix(proc[r].calls, proc[q].calls) \/ IsPrefix(proc[q].calls, proc[r].calls)
        /\ IsPrefix(proc[r].decisions, proc[q].decisions)
              \/ IsPrefix(proc[q].decisions, proc[r].decisions)
        /\ (proc[r].pos = "done" /\ proc[q].pos = "done") =>
              /\ proc[r].calls = proc[q].calls
              /\ proc[r].decisions = proc[q].decisions
              /\ proc[r].e = proc[q].e
              /\ proc[r].ret = proc[q].ret

\* C27: in allReduceTrad and fedOpt all ranks of the grid execute the same
\* sequence of collective operations in every epoch, the epoch of fedOpt's
\* early return on a NaN fit included; no rank blocks forever in a
\* collective, and all ranks take the same accept / reject decisions and
\* leave the loop at the same epoch.
C27_SameCollectives == [](ccfg # <<>> => SameCourse) /\ <>(ccfg # <<>> => AllReturned)

\* fedOpt on a 2 x 2 grid has returned early on every rank, on a NaN fit
\* in an epoch after one that ended with a decision.
C27_Witness ==
    /\ ccfg # <<>>
    /\ ccfg.method = "fedopt"
    /\ ccfg.grid = <<2, 2>>
    /\ AllReturned
    /\ \A r \in DOMAIN proc :
          /\ proc[r].e < ccfg.maxEpochs
          /\ Len(proc[r].decisions) = 1
          /\ isnan(proc[r].fest)
          /\ "MPI_Allreduce subComm(0)" \in {proc[r].calls[k] : k \in DOMAIN proc[r].calls}

====
